---- MODULE Spec2Model ----
(***************************************************************************)
(* A model of src/src/Graph.ts: the module graph of the bundler.           *)
(*                                                                         *)
(* Phase 1 (loadEntryModules / fetchModule / fetchAllDependencies) is a    *)
(* set of promise chains.  Every plugin hook call (resolveId, load,        *)
(* transform, resolveDynamicImport) is an outstanding call that completes  *)
(* in an arbitrary order; one action is one completion together with the   *)
(* synchronous continuation the code runs on it.                           *)
(***************************************************************************)
EXTENDS Integers, Sequences, FiniteSets, TLC

(***************************************************************************)
(* Values                                                                  *)
(***************************************************************************)
None == "<none>"
\* a nullish hook result (null / undefined)
NULL == "<null>"
\* the hook result `false`
FALSE_ == "<false>"
\* a hook whose promise rejects
THROW == "<throw>"

\* ids of source files the load hook knows
ModIds == {"/a", "/b", "/c"}
\* every string used as a key of moduleById
Ids == ModIds \cup {"/x", "ext"}
\* import specifiers as they appear in the sources
RelSpecs == {"./a", "./b", "./c", "./x"}
BareSpecs == {"ext"}
Specs == RelSpecs \cup BareSpecs
\* exported names
Names == {"x", "y", "default"}

\* src/utils/path isRelative, on the specifiers of the model
isRelative(source) == source \in RelSpecs

\* src/utils/path resolve(module.id, '..', source): every file lives in "/"
resolve(importer, source) ==
  CASE source = "./a" -> "/a"
    [] source = "./b" -> "/b"
    [] source = "./c" -> "/c"
    [] source = "./x" -> "/x"
    [] OTHER -> source

(***************************************************************************)
(* Bounds of the input space                                               *)
(***************************************************************************)
\* number of module graphs (file contents and entry lists)
NumShapes == 7
\* number of resolveId behaviours
NumResolvers == 4
\* number of `external` options
NumExternals == 3
\* number of cache / load-hook behaviours (used with shape 1 only)
NumCaches == 3
NumLoaders == 3

(***************************************************************************)
(* The inputs of one build: file contents, options and hook outputs        *)
(***************************************************************************)
Mod(srcs, dyn, exps, expAll) ==
  [sources |-> srcs, dyn |-> dyn, exports |-> exps, exportAllSources |-> expAll]

Leaf(exps) == Mod(<<>>, <<>>, exps, <<>>)

\* a dynamic import expression: a string literal or another AST node
DynStr(s) == [str |-> TRUE, spec |-> s]
DynNode == [str |-> FALSE, spec |-> "<node>"]

\* what parsing the code of each file yields, per module graph
Content(shape) ==
  CASE shape = 1 ->   \* a imports b and c, which load in parallel
         ("/a" :> Mod(<<"./b", "./c">>, <<>>, <<"default">>, <<>>) @@
          "/b" :> Leaf(<<"x">>) @@
          "/c" :> Leaf(<<"y">>))
    [] shape = 2 ->   \* diamond of re-exports: a -> b, a -> c -> b
         ("/a" :> Mod(<<"./b", "./c">>, <<>>, <<>>, <<"./b", "./c">>) @@
          "/b" :> Leaf(<<"x", "default">>) @@
          "/c" :> Mod(<<"./b">>, <<>>, <<"y">>, <<"./b">>))
    [] shape = 3 ->   \* cycle of re-exports: a <-> b
         ("/a" :> Mod(<<"./b">>, <<>>, <<"y">>, <<"./b">>) @@
          "/b" :> Mod(<<"./a">>, <<>>, <<"x">>, <<"./a">>) @@
          "/c" :> Leaf(<<>>))
    [] shape = 4 ->   \* unresolved and external static imports
         ("/a" :> Mod(<<"./b", "ext">>, <<>>, <<"x">>, <<"ext">>) @@
          "/b" :> Mod(<<"./x", "./c">>, <<>>, <<"y">>, <<>>) @@
          "/c" :> Leaf(<<"x">>))
    [] shape = 5 ->   \* dynamic imports
         ("/a" :> Mod(<<"./b">>, <<DynStr("ext"), DynNode, DynStr("./c")>>, <<>>, <<>>) @@
          "/b" :> Mod(<<"ext">>, <<>>, <<"x">>, <<>>) @@
          "/c" :> Mod(<<"ext">>, <<>>, <<"y">>, <<>>))
    [] shape = 6 ->   \* two entries and a manual chunk sharing modules
         ("/a" :> Mod(<<"./c">>, <<DynStr("./b")>>, <<"x">>, <<"./c">>) @@
          "/b" :> Mod(<<"./c">>, <<>>, <<"y">>, <<>>) @@
          "/c" :> Leaf(<<"x">>))
    [] OTHER ->       \* entries given twice or by a relative path
         ("/a" :> Mod(<<"./b">>, <<>>, <<"x">>, <<>>) @@
          "/b" :> Leaf(<<"y">>) @@
          "/c" :> Leaf(<<>>))

\* an import declaration: the specifier and the imported name
ImportDeclaration(source, name) == [source |-> source, name |-> name]

\* module.imports of each file, in the order of its keys
Imports(shape) ==
  CASE shape = 1 ->
         ("/a" :> <<ImportDeclaration("./b", "x"), ImportDeclaration("./c", "y")>> @@
          "/b" :> <<>> @@
          "/c" :> <<>>)
    [] shape = 4 ->
         ("/a" :> <<ImportDeclaration("./b", "y"), ImportDeclaration("ext", "p"),
                    ImportDeclaration("ext", "q")>> @@
          "/b" :> <<ImportDeclaration("./c", "x")>> @@
          "/c" :> <<>>)
    [] shape = 5 ->
         ("/a" :> <<>> @@
          "/b" :> <<ImportDeclaration("ext", "p")>> @@
          "/c" :> <<ImportDeclaration("ext", "p"), ImportDeclaration("ext", "default")>>)
    [] OTHER ->
         ("/a" :> <<>> @@ "/b" :> <<>> @@ "/c" :> <<>>)

\* options.input, as a list
Entries(shape) ==
  CASE shape = 4 -> <<"/a", "/b">>
    [] shape = 6 -> <<"/a", "/b">>
    [] shape = 7 -> <<"/a", "./b", "/a">>
    [] OTHER -> <<"/a">>

\* options.manualChunks: the ids of the single manual chunk, <<>> when not set
ManualChunks(shape) ==
  CASE shape = 6 -> <<"/c", "/b">>
    [] OTHER -> <<>>

Configs ==
  { [shape |-> s, res |-> r, ext |-> e, cache |-> 1, load |-> 1] :
      s \in 1..NumShapes, r \in 1..NumResolvers, e \in 1..NumExternals }
  \cup
  { [shape |-> 1, res |-> 1, ext |-> 1, cache |-> k, load |-> l] :
      k \in 1..NumCaches, l \in 1..NumLoaders }

(***************************************************************************)
(* Plugin hooks and options: pure functions of the inputs                  *)
(***************************************************************************)
\* pluginDriver.hookFirst('resolveId', [source, importer])
resolveIdHook(c, source) ==
  CASE source \in ModIds -> source                    \* an entry given by its id
    [] c.res = 2 /\ source \in {"./b", "./c"} -> FALSE_
    [] c.res = 4 /\ source \in {"./b", "ext", "./x"} -> FALSE_
    [] c.res = 3 /\ source = "./b" -> NULL
    [] c.res = 3 /\ source \in {"ext", "./x"} -> "/c"
    [] source \in RelSpecs /\ resolve("/", source) \in ModIds -> resolve("/", source)
    [] OTHER -> NULL

\* pluginDriver.hookFirst('resolveDynamicImport', [expression, importer])
resolveDynamicImportHook(c, expr) ==
  CASE ~expr.str /\ c.res = 1 -> NULL
    [] ~expr.str /\ c.res = 2 -> "/c"
    [] ~expr.str /\ c.res = 4 -> THROW
    [] ~expr.str -> "ext"
    [] c.res = 3 /\ expr.spec = "./c" -> NULL
    [] expr.spec \in RelSpecs -> resolve("/", expr.spec)
    [] OTHER -> expr.spec

\* options.external, as a list of ids
ExternalOption(c) ==
  CASE c.ext = 1 -> {}
    [] c.ext = 2 -> {"ext"}
    [] OTHER -> {"/b", "ext"}

\* ids as isExternal may be asked about; the last two begin with \0
ExternalIds == {"ext", "/b", "\\0virtual", "\\0helper"}
startsWithNul(id) == id \in {"\\0virtual", "\\0helper"}

\* options.external: absent, a single string, a list of strings, or a
\* function (given by the ids it answers true for)
ExternalOptions ==
  { [form |-> "none", ids |-> {}] }
  \cup { [form |-> "string", ids |-> {id}] : id \in ExternalIds }
  \cup { [form |-> f, ids |-> ids] : f \in {"list", "function"}, ids \in SUBSET ExternalIds }

\* this.isExternal as the constructor sets it up, lines 144-152
isExternalFor(external, id) ==
  IF external.form = "function"
  THEN ~startsWithNul(id) /\ id \in external.ids
  ELSE id \in external.ids

\* this.isExternal for a list (or single string) option
isExternal(c, id) == isExternalFor([form |-> "list", ids |-> ExternalOption(c)], id)

\* the text of a file
Code(id) == <<"code", id>>

\* pluginDriver.hookFirst('load', [id]): the kind of value it yields
LoadKinds == {"string", "object", "null", "bad", THROW}
loadHook(c, id) ==
  CASE id \notin ModIds -> THROW
    [] c.load = 2 /\ id = "/a" -> "object"
    [] c.load = 2 /\ id = "/b" -> THROW
    [] c.load = 2 /\ id = "/c" -> "null"
    [] c.load = 3 /\ id = "/b" -> "bad"
    [] c.load = 3 /\ id = "/c" -> "object"
    [] OTHER -> "string"

\* options.cache.modules as the constructor files it in this.cachedModules;
\* the cache of "/a" holds the resolvedIds of its two imports as the build
\* that wrote it (same files, hooks and options) had bound them
CachedJSON(code, custom, assets) ==
  [present |-> TRUE, originalCode |-> code, customTransformCache |-> custom,
   transformAssets |-> assets,
   resolvedIds |-> [sp \in Specs |->
                      IF code[2] = "/a" /\ sp \in {"./b", "./c"} THEN resolve("/", sp)
                      ELSE None]]

\* this.cachedModules.get(id) of an id that is not cached
NotCached ==
  [present |-> FALSE, originalCode |-> <<"none", "">>, customTransformCache |-> FALSE,
   transformAssets |-> <<>>, resolvedIds |-> [sp \in Specs |-> None]]

cachedModules(c, id) ==
  CASE c.cache = 2 /\ id = "/a" -> CachedJSON(Code(id), FALSE, <<"asset1", "asset2">>)
    [] c.cache = 2 /\ id = "/b" -> CachedJSON(<<"old", id>>, FALSE, <<"asset3">>)
    [] c.cache = 2 /\ id = "/c" -> CachedJSON(Code(id), TRUE, <<"asset4">>)
    [] c.cache = 3 /\ id = "/a" -> CachedJSON(<<"old", id>>, TRUE, <<>>)
    [] c.cache = 3 /\ id = "/b" -> CachedJSON(Code(id), FALSE, <<>>)
    [] c.cache = 3 /\ id = "/c" -> CachedJSON(Code(id), FALSE, <<"asset4">>)
    [] OTHER -> NotCached

(***************************************************************************)
(* State of one Graph and of the promise chains of its build               *)
(***************************************************************************)
VARIABLES
  cfg,                \* options and hook behaviour this Graph was built with
  phase,              \* the future returned by loadEntryModules
  buildError,         \* the error that future rejected with
  moduleById,         \* Graph.moduleById: id -> Module | ExternalModule
  modules,            \* Graph.modules
  externalModules,    \* Graph.externalModules
  watchFiles,         \* Graph.watchFiles
  warnings,           \* what this.warn was called with, in order
  entryTask,          \* one loadModule promise per entry or manual chunk id
  pc,                 \* per module id: where its fetchModule chain stands
  err,                \* per module id: what its fetchModule chain rejected with
  staticTask,         \* per module: one promise per specifier of module.sources
  dynTask,            \* per module: one promise per dynamic import expression
  resolvedIds,        \* Module.resolvedIds
  dynamicImportResolutions, \* Module.dynamicImportResolutions
  exportsAll,         \* Module.exportsAll, a map kept in insertion order
  exportsNamespace,   \* the objects whose exportsNamespace was set to true
  constructed,        \* per id: how many times `new Module(this, id)` ran
  extConstructed,     \* per id: how many times `new ExternalModule` ran
  fetchCalls,         \* per id: how many times fetchModule(id) was called
  loadCalls,          \* per id: how many times the load hook was called
  transformCalls,     \* per id: how many times transform was called
  emittedAssets,      \* what pluginDriver.emitAsset was called with, in order
  regOrder,           \* ids in the order fetchModule registered them
  inFlightReturns,    \* ids fetchModule answered with a module still in flight
  round,              \* 1 for the first build of these inputs, 2 for the second
  firstOutcome,       \* what the first build ended with
  traced              \* the traceExport calls made on ExternalModules

\* build after phase 1 (lines 393-499): marking, tree-shaking, chunking
VARIABLES
  linked,             \* the linked graph and the options these steps run on
  at,                 \* where build stands after analyzeModuleExecution returned
  entryModules,       \* build's entryModules, dynamic imports pushed onto it
  referenced,         \* declarations marked as exported or referenced by an included node
  included,           \* the top-level statements that are included
  needsTreeshakingPass, \* includeMarked's needsTreeshakingPass
  treeshakingPass,    \* includeMarked's treeshakingPass
  moduleIndex,        \* position of `for (const module of modules)` in includeMarked
  chunks,             \* build's chunks
  moduleChunk,        \* Module.chunk
  finished,           \* Graph.finished
  chunkAlias,         \* Module.chunkAlias
  markPublicCalls     \* per module: how often markPublicExports was invoked on it

\* the plugin cache over a sequence of builds (lines 90-100, 206-222)
VARIABLES
  pluginCache,        \* Graph.pluginCache: plugin name -> key -> [counter, value]
  cacheExpiry,        \* Graph.cacheExpiry
  buildNumber,        \* how many Graphs were constructed on this cache so far
  cacheAt,            \* "fresh", "constructed" (a Graph is building) or "returned" (getCache ran)
  lastSet             \* per entry: the build in which its counter was last 0

cacheVars == <<pluginCache, cacheExpiry, buildNumber, cacheAt, lastSet>>

\* the external option and calls of isExternal (lines 144-152)
VARIABLES
  external,           \* options.external
  externalCall,       \* the id isExternal was called with last
  externalResult      \* what that call returned

externalVars == <<external, externalCall, externalResult>>

\* the watcher handed to the constructor (lines 136-142)
VARIABLES
  watcher,            \* whether the Graph was constructed with a watcher
  changeListeners,    \* the watcher's listeners of 'change', in the order added
  restartListeners,   \* the watcher's listeners of 'restart', in the order added
  watchChangeCalls,   \* the ids hookSeqSync('watchChange', [id]) was called with
  emitted             \* the events the watcher has emitted, in order

watcherVars == <<watcher, changeListeners, restartListeners, watchChangeCalls, emitted>>

\* the cache a first build hands to the next one (lines 85-89, 218-221)
VARIABLES
  cacheModules,       \* getCache().modules of the first build: id -> ModuleJSON
  coldImports         \* how the first build classified each static import

warmVars == <<cacheModules, coldImports>>

bundleVars == <<linked, at, entryModules, referenced, included, needsTreeshakingPass,
                treeshakingPass, moduleIndex, chunks, moduleChunk, finished, chunkAlias,
                markPublicCalls>>

vars == <<cfg, phase, buildError, moduleById, modules, externalModules, watchFiles,
          warnings, entryTask, pc, err, staticTask, dynTask, resolvedIds,
          dynamicImportResolutions, exportsAll, exportsNamespace, constructed,
          extConstructed, fetchCalls, loadCalls, transformCalls, emittedAssets,
          regOrder, inFlightReturns, round, firstOutcome, traced, bundleVars, cacheVars,
          externalVars, watcherVars, warmVars>>

\* the fields of the Graph that phase 1 wrote
discoveryVars == <<cfg, phase, moduleById, modules, externalModules, watchFiles,
                   entryTask, pc, err, staticTask, dynTask, resolvedIds,
                   dynamicImportResolutions, exportsAll, exportsNamespace, constructed,
                   extConstructed, fetchCalls, loadCalls, transformCalls, emittedAssets,
                   regOrder, inFlightReturns, round, firstOutcome, traced>>

\* what the steps of discovery, of the later phases and of the plugin cache
\* leave alone
notDiscoveryVars == <<bundleVars, cacheVars, externalVars, watcherVars, warmVars>>
notBundleVars == <<cacheVars, externalVars, watcherVars, warmVars>>
notCacheVars == <<bundleVars, discoveryVars, buildError, warnings, externalVars, watcherVars,
                  warmVars>>
notExternalVars == <<bundleVars, discoveryVars, buildError, warnings, cacheVars, watcherVars,
                     warmVars>>
notWatcherVars == <<bundleVars, discoveryVars, buildError, warnings, cacheVars, externalVars,
                    warmVars>>

\* objects are told apart by their class, their id and which construction made them
ModuleObj(id, n) == [kind |-> "Module", id |-> id, gen |-> n]
ExternalObj(id, n) == [kind |-> "External", id |-> id, gen |-> n]
\* what Map.get yields for a missing key, and other values that are no module
NoObj == [kind |-> "none", id |-> None, gen |-> 0]
Undefined == [kind |-> "undefined", id |-> None, gen |-> 0]
StringValue(str) == [kind |-> "string", id |-> str, gen |-> 0]

\* the Module the running fetchModule(id) chain constructed
selfObj(id) == ModuleObj(id, constructed[id])

Range(seq) == { seq[k] : k \in 1..Len(seq) }

\* a promise that is still pending, resolved or rejected
Task(st, child, e) == [st |-> st, child |-> child, err |-> e]
Resolving == Task("resolving", None, None)
Done == Task("done", None, None)
Failed(e) == Task("failed", None, e)
Wait(child) == Task("wait", child, None)

\* a promise waiting on the fetchModule chain it started settles with that chain
TaskDone(t) == t.st = "done" \/ (t.st = "wait" /\ pc[t.child] = "done")
TaskFailed(t) == t.st = "failed" \/ (t.st = "wait" /\ pc[t.child] = "failed")
TaskErr(t) == IF t.st = "failed" THEN t.err ELSE err[t.child]

\* Module.setSource has run for the module with this id
HasSource(id) == \E k \in 1..Len(modules) : modules[k].id = id

\* fields of a Module read from its parsed source (empty before setSource)
Sources(id) == IF id \in ModIds /\ HasSource(id) THEN Content(cfg.shape)[id].sources ELSE <<>>
DynamicImportExpressions(id) == IF id \in ModIds /\ HasSource(id) THEN Content(cfg.shape)[id].dyn ELSE <<>>
ModuleImports(id) == IF id \in ModIds /\ HasSource(id) THEN Imports(cfg.shape)[id] ELSE <<>>
Exports(id) == IF id \in ModIds /\ HasSource(id) THEN Content(cfg.shape)[id].exports ELSE <<>>
ExportAllSources(id) == IF id \in ModIds /\ HasSource(id) THEN Content(cfg.shape)[id].exportAllSources ELSE <<>>

RECURSIVE AppendMissing(_, _)
AppendMissing(seq, more) ==
  IF more = <<>> THEN seq
  ELSE AppendMissing(IF Head(more) \in Range(seq) THEN seq ELSE Append(seq, Head(more)),
                     Tail(more))

\* loadEntryModules: the entries, then the manual chunk ids not yet listed
entryAndManualChunkIds(c) == AppendMissing(Entries(c.shape), ManualChunks(c.shape))

\* what a build is seen to end with
Outcome(ok, error, mods, warns) ==
  [ok |-> ok, error |-> error, modules |-> mods, warnings |-> warns]
NoOutcome == Outcome(FALSE, None, <<>>, <<>>)

\* the fields of a Graph right after its construction
NewGraph ==
  /\ cfg \in Configs
  /\ phase = "new"
  /\ buildError = None
  /\ moduleById = [id \in Ids |-> NoObj]
  /\ modules = <<>>
  /\ externalModules = <<>>
  /\ watchFiles = {}
  /\ warnings = <<>>
  /\ entryTask = <<>>
  /\ pc = [id \in Ids |-> "none"]
  /\ err = [id \in Ids |-> None]
  /\ staticTask = [id \in Ids |-> <<>>]
  /\ dynTask = [id \in Ids |-> <<>>]
  /\ resolvedIds = [id \in Ids |-> [s \in Specs |-> None]]
  /\ dynamicImportResolutions = [id \in Ids |-> <<>>]
  /\ exportsAll = [id \in Ids |-> <<>>]
  /\ exportsNamespace = {}
  /\ constructed = [id \in Ids |-> 0]
  /\ extConstructed = [id \in Ids |-> 0]
  /\ fetchCalls = [id \in Ids |-> 0]
  /\ loadCalls = [id \in Ids |-> 0]
  /\ transformCalls = [id \in Ids |-> 0]
  /\ emittedAssets = <<>>
  /\ regOrder = <<>>
  /\ inFlightReturns = {}
  /\ round = 1
  /\ firstOutcome = NoOutcome
  /\ traced = {}

\* what Module.chunk holds before a chunk was constructed around the module
NoChunk == [id |-> None, facade |-> FALSE, modules |-> <<>>, isEmpty |-> TRUE,
            entryModule |-> None, isManualChunk |-> FALSE, isEntryModuleFacade |-> FALSE]

\* build has not come to its later phases
NotAnalysed ==
  /\ linked = [program |-> 0, treeshake |-> TRUE, preserveModules |-> FALSE,
               inlineDynamicImports |-> FALSE]
  /\ at = "discovery"
  /\ entryModules = <<>>
  /\ referenced = {}
  /\ included = {}
  /\ needsTreeshakingPass = FALSE
  /\ treeshakingPass = 1
  /\ moduleIndex = 1
  /\ chunks = <<>>
  /\ moduleChunk = <<>>
  /\ finished = FALSE
  /\ chunkAlias = <<>>
  /\ markPublicCalls = <<>>

\* no cache is handed from build to build
NoPluginCache ==
  /\ pluginCache = <<>>
  /\ cacheExpiry = [defined |-> FALSE, value |-> 0]
  /\ buildNumber = 0
  /\ cacheAt = "fresh"
  /\ lastSet = <<>>

\* isExternal was not called
NoExternalCall ==
  /\ external = [form |-> "none", ids |-> {}]
  /\ externalCall = None
  /\ externalResult = FALSE

\* the Graph was constructed without a watcher
NoWatcher ==
  /\ watcher = FALSE
  /\ changeListeners = <<>>
  /\ restartListeners = <<>>
  /\ watchChangeCalls = <<>>
  /\ emitted = <<>>

\* the branch lines 669-725 took for a specifier and the id filed for it
Classified(isExt, id) == [external |-> isExt, id |-> id]
NotClassified == Classified(FALSE, None)

\* no earlier build has handed its modules on
NoWarmCache ==
  /\ cacheModules = [id \in Ids |-> NotCached]
  /\ coldImports = [id \in Ids |-> [sp \in Specs |-> NotClassified]]

Init == NewGraph /\ NotAnalysed /\ NoPluginCache /\ NoExternalCall /\ NoWatcher /\ NoWarmCache

(***************************************************************************)
(* fetchModule, lines 505-518: the part that runs before the load hook     *)
(***************************************************************************)
\* mutant: the module counts as registered only once its source has arrived,
\* as if line 514 were missing and line 569 alone filed it
FetchResultRegisteredLate(id) ==
  IF moduleById[id] # NoObj /\ (moduleById[id].kind = "External" \/ HasSource(id))
  THEN IF moduleById[id].kind = "External" THEN "throw" ELSE "existing"
  ELSE "new"

\* mutant: line 509 is missing, an ExternalModule found under the id is not
\* looked at and a Module is constructed
FetchResultOverExternal(id) ==
  IF moduleById[id] # NoObj /\ moduleById[id].kind # "External" THEN "existing" ELSE "new"

\* what the call does: "throw", "existing" (a resolved promise) or "new"
FetchResult(id) ==
  IF moduleById[id] # NoObj
  THEN IF moduleById[id].kind = "External" THEN "throw" ELSE "existing"
  ELSE "new"

\* the variables fetchModule writes before it awaits the load hook
fetchVars == <<moduleById, watchFiles, pc, constructed, loadCalls, regOrder>>

fetchModule(id) ==
  /\ fetchCalls' = [fetchCalls EXCEPT ![id] = @ + 1]
  /\ inFlightReturns' =
       IF FetchResult(id) = "existing" /\ pc[moduleById[id].id] \notin {"done", "failed"}
       THEN inFlightReturns \cup {id}
       ELSE inFlightReturns
  /\ IF FetchResult(id) = "new"
     THEN /\ constructed' = [constructed EXCEPT ![id] = @ + 1]
          /\ moduleById' = [moduleById EXCEPT ![id] = ModuleObj(id, constructed[id] + 1)]
          /\ watchFiles' = watchFiles \cup {id}
          /\ loadCalls' = [loadCalls EXCEPT ![id] = @ + 1]
          /\ pc' = [pc EXCEPT ![id] = "loading"]
          /\ regOrder' = Append(regOrder, id)
     ELSE UNCHANGED fetchVars

\* the promise of the caller after fetchModule(id) returned
AfterFetch(id) ==
  CASE FetchResult(id) = "new" -> Wait(id)
    [] FetchResult(id) = "existing" -> Done
    [] OTHER -> Failed("FETCH_EXTERNAL")

(***************************************************************************)
(* build / loadEntryModules / loadModule                                   *)
(***************************************************************************)
\* build() calls loadEntryModules, which calls loadModule for every id
Build ==
  /\ phase = "new"
  /\ phase' = "phase1"
  /\ entryTask' = [i \in 1..Len(entryAndManualChunkIds(cfg)) |-> Resolving]
  /\ UNCHANGED <<cfg, round, firstOutcome, buildError, moduleById, modules, externalModules, watchFiles,
                 warnings, pc, err, staticTask, dynTask, resolvedIds,
                 dynamicImportResolutions, exportsAll, exportsNamespace, constructed,
                 extConstructed, fetchCalls, inFlightReturns, loadCalls, transformCalls, emittedAssets,
                 regOrder>>
  /\ UNCHANGED traced
  /\ UNCHANGED notDiscoveryVars

\* loadModule: the resolveId hook of entry i completes
LoadModuleResolved(i) ==
  /\ i \in 1..Len(entryTask)
  /\ entryTask[i].st = "resolving"
  /\ LET id == resolveIdHook(cfg, entryAndManualChunkIds(cfg)[i]) IN
       IF id \in {FALSE_, NULL}
       THEN /\ entryTask' = [entryTask EXCEPT ![i] = Failed("UNRESOLVED_ENTRY")]
            /\ UNCHANGED fetchVars
            /\ UNCHANGED <<fetchCalls, inFlightReturns>>
       ELSE /\ fetchModule(id)
            /\ entryTask' = [entryTask EXCEPT ![i] = [AfterFetch(id) EXCEPT !.child = id]]
  /\ UNCHANGED <<cfg, round, firstOutcome, phase, buildError, modules, externalModules, warnings, err,
                 staticTask, dynTask, resolvedIds, dynamicImportResolutions, exportsAll,
                 exportsNamespace, extConstructed, transformCalls, emittedAssets>>
  /\ UNCHANGED traced
  /\ UNCHANGED notDiscoveryVars

(***************************************************************************)
(* fetchModule, lines 518-570: load, validation, cache check, transform    *)
(***************************************************************************)
\* this.cachedModules.get(id), lines 85-89: the modules of options.cache, which
\* are those of the first build when it handed its cache on
thisCachedModules(c, id) ==
  IF cacheModules[id].present THEN cacheModules[id] ELSE cachedModules(c, id)

\* mutant: the customTransformCache check of line 552 is left out
CacheHitIgnoringCustom(c, id) ==
  /\ thisCachedModules(c, id).present
  /\ thisCachedModules(c, id).originalCode = Code(id)

\* lines 549-554: the cached module is reused for this load result
CacheHit(c, id) ==
  /\ thisCachedModules(c, id).present
  /\ ~thisCachedModules(c, id).customTransformCache
  /\ thisCachedModules(c, id).originalCode = Code(id)

\* lines 519-539: the error the load result is turned into, None for a valid one
LoadError(kind) ==
  CASE kind = THROW -> "LOAD_ERROR"
    [] kind \in {"string", "object"} -> None
    [] OTHER -> "BAD_LOADER"

\* the load hook of module id completes
LoadDone(id) ==
  /\ pc[id] = "loading"
  /\ LET e == LoadError(loadHook(cfg, id)) IN
       IF e # None
       THEN /\ pc' = [pc EXCEPT ![id] = "failed"]
            /\ err' = [err EXCEPT ![id] = e]
            /\ UNCHANGED <<emittedAssets, transformCalls>>
       ELSE IF CacheHit(cfg, id)
       THEN /\ emittedAssets' = emittedAssets \o thisCachedModules(cfg, id).transformAssets
            /\ pc' = [pc EXCEPT ![id] = "cached"]
            /\ UNCHANGED <<err, transformCalls>>
       ELSE /\ transformCalls' = [transformCalls EXCEPT ![id] = @ + 1]
            /\ pc' = [pc EXCEPT ![id] = "transforming"]
            /\ UNCHANGED <<err, emittedAssets>>
  /\ UNCHANGED <<cfg, round, firstOutcome, phase, buildError, moduleById, modules, externalModules,
                 watchFiles, warnings, entryTask, staticTask, dynTask, resolvedIds,
                 dynamicImportResolutions, exportsAll, exportsNamespace, constructed,
                 extConstructed, fetchCalls, inFlightReturns, loadCalls, regOrder>>
  /\ UNCHANGED traced
  /\ UNCHANGED notDiscoveryVars

\* lines 565-571 and the synchronous part of fetchAllDependencies (609-612,
\* 652-662): the source (transformed, or the cached module) reaches the module,
\* which is appended to modules; every resolveDynamicImport call is made and
\* every specifier is handed to resolvedIds / isExternal / the resolveId hook
SourceReady(id) ==
  /\ pc[id] \in {"transforming", "cached"}
  /\ modules' = Append(modules, selfObj(id))
  /\ moduleById' = [moduleById EXCEPT ![id] = selfObj(id)]
  /\ pc' = [pc EXCEPT ![id] = "deps"]
  /\ staticTask' = [staticTask EXCEPT
                      ![id] = [i \in 1..Len(Content(cfg.shape)[id].sources) |-> Resolving]]
  /\ dynTask' = [dynTask EXCEPT
                   ![id] = [j \in 1..Len(Content(cfg.shape)[id].dyn) |-> Resolving]]
  /\ dynamicImportResolutions' = [dynamicImportResolutions EXCEPT
                   ![id] = [j \in 1..Len(Content(cfg.shape)[id].dyn) |-> [resolution |-> NoObj]]]
  \* module.setSource(cachedModule) takes over the resolvedIds of the ModuleJSON
  /\ resolvedIds' = IF pc[id] = "cached"
                    THEN [resolvedIds EXCEPT ![id] = thisCachedModules(cfg, id).resolvedIds]
                    ELSE resolvedIds
  /\ UNCHANGED <<cfg, round, firstOutcome, phase, buildError, externalModules, watchFiles, warnings,
                 entryTask, err, exportsAll, exportsNamespace, constructed,
                 extConstructed, fetchCalls, inFlightReturns, loadCalls, transformCalls, emittedAssets,
                 regOrder>>
  /\ UNCHANGED traced
  /\ UNCHANGED notDiscoveryVars

(***************************************************************************)
(* fetchAllDependencies, lines 651-727: one static import                  *)
(***************************************************************************)
\* lines 655-661: a pre-populated resolvedIds entry, else `false` for an
\* external specifier, else what the resolveId hook yields
StaticResolvedId(c, pre, source) ==
  IF pre # None THEN pre
  ELSE IF isExternal(c, source) THEN FALSE_
  ELSE resolveIdHook(c, source)

\* JavaScript's !resolvedId for the values the hook can yield
Falsy(resolvedId) == resolvedId \in {NULL, FALSE_}

\* lines 666-668
ExternalId(importer, source, resolvedId) ==
  IF ~Falsy(resolvedId) THEN resolvedId
  ELSE IF isRelative(source) THEN resolve(importer, source) ELSE source

\* line 669
IsExternalImport(c, importer, source, resolvedId) ==
  resolvedId = FALSE_ \/ isExternal(c, ExternalId(importer, source, resolvedId))

\* line 671
Unresolved(c, importer, source, resolvedId) ==
  Falsy(resolvedId) /\ ~IsExternalImport(c, importer, source, resolvedId)

\* lines 672-677: the fatal UNRESOLVED_IMPORT
UnresolvedFatal(c, importer, source, resolvedId) ==
  Unresolved(c, importer, source, resolvedId) /\ isRelative(source)

\* mutant: `false` is treated like a nullish result
UnresolvedWarnedAlsoFalse(c, importer, source, resolvedId) ==
  Falsy(resolvedId) /\ ~isRelative(source) /\ ~isExternal(c, source)

\* lines 679-690: the UNRESOLVED_IMPORT warning
UnresolvedWarned(c, importer, source, resolvedId) ==
  /\ Unresolved(c, importer, source, resolvedId)
  /\ ~isRelative(source)
  /\ resolvedId # FALSE_

\* mutant: the ExternalModule is created without looking the id up
NotInModuleByIdUnchecked(id) == TRUE

\* lines 629 and 697: !this.moduleById.has(id)
NotInModuleById(id) == moduleById[id] = NoObj

\* line 705: externalModule instanceof ExternalModule
IsExternalModule(obj) == obj.kind = "External"

UnresolvedImportWarning(importer, source) ==
  [code |-> "UNRESOLVED_IMPORT", source |-> source, importer |-> importer]

\* a call externalModule.traceExport(name) made for an import of the importer
TraceExport(externalModule, importer, name) ==
  [module |-> externalModule, importer |-> importer, name |-> name]

\* lines 714-719: the names traceExport is called with; the loop over
\* module.imports is left by `return` at the first declaration of another source
RECURSIVE tracedNames(_, _)
tracedNames(imports, source) ==
  IF imports = <<>> THEN {}
  ELSE IF Head(imports).source # source THEN {}
  ELSE {Head(imports).name} \cup tracedNames(Tail(imports), source)

\* the second `then` of the chain of specifier i of module m runs (lines 663-725)
StaticResolved(m, i) ==
  /\ i \in 1..Len(staticTask[m])
  /\ staticTask[m][i].st = "resolving"
  /\ LET source == Sources(m)[i]
         resolvedId == StaticResolvedId(cfg, resolvedIds[m][source], source)
         externalId == ExternalId(m, source, resolvedId)
         create == NotInModuleById(externalId)
         newExternal == ExternalObj(externalId, extConstructed[externalId] + 1)
         externalModule == IF create THEN newExternal ELSE moduleById[externalId]
     IN
       IF UnresolvedFatal(cfg, m, source, resolvedId)
       THEN /\ staticTask' = [staticTask EXCEPT ![m][i] = Failed("UNRESOLVED_IMPORT")]
            /\ UNCHANGED <<warnings, resolvedIds, externalModules, extConstructed,
                           fetchCalls, inFlightReturns, traced>>
            /\ UNCHANGED fetchVars
       ELSE IF \/ IsExternalImport(cfg, m, source, resolvedId)
               \/ Unresolved(cfg, m, source, resolvedId)
       THEN /\ warnings' = IF UnresolvedWarned(cfg, m, source, resolvedId)
                           THEN Append(warnings, UnresolvedImportWarning(m, source))
                           ELSE warnings
            /\ resolvedIds' = [resolvedIds EXCEPT ![m][source] = externalId]
            /\ moduleById' = IF create
                             THEN [moduleById EXCEPT ![externalId] = newExternal]
                             ELSE moduleById
            /\ externalModules' = IF create
                                  THEN Append(externalModules, newExternal)
                                  ELSE externalModules
            /\ extConstructed' = IF create
                                 THEN [extConstructed EXCEPT ![externalId] = @ + 1]
                                 ELSE extConstructed
            /\ staticTask' = [staticTask EXCEPT ![m][i] =
                                IF IsExternalModule(externalModule)
                                THEN Done
                                ELSE Failed("INVALID_EXTERNAL_ID")]
            /\ traced' = IF IsExternalModule(externalModule)
                         THEN traced \cup
                                { TraceExport(externalModule, m, name) :
                                    name \in tracedNames(ModuleImports(m), source) }
                         ELSE traced
            /\ UNCHANGED <<watchFiles, pc, constructed, loadCalls, regOrder, fetchCalls, inFlightReturns>>
       ELSE /\ resolvedIds' = [resolvedIds EXCEPT ![m][source] = resolvedId]
            /\ fetchModule(resolvedId)
            /\ staticTask' = [staticTask EXCEPT ![m][i] = AfterFetch(resolvedId)]
            /\ UNCHANGED <<warnings, externalModules, extConstructed, traced>>
  /\ UNCHANGED <<cfg, round, firstOutcome, phase, buildError, modules, entryTask, err, dynTask,
                 dynamicImportResolutions, exportsAll, exportsNamespace, transformCalls,
                 emittedAssets>>
  /\ UNCHANGED notDiscoveryVars

(***************************************************************************)
(* fetchAllDependencies, lines 609-649: one dynamic import                 *)
(***************************************************************************)
\* the resolveDynamicImport hook of expression j of module m completes
DynamicResolved(m, j) ==
  /\ j \in 1..Len(dynTask[m])
  /\ dynTask[m][j].st = "resolving"
  /\ LET expr == DynamicImportExpressions(m)[j]
         replacement == resolveDynamicImportHook(cfg, expr)
         create == NotInModuleById(replacement)
         newExternal == ExternalObj(replacement, extConstructed[replacement] + 1)
         externalModule == IF create THEN newExternal ELSE moduleById[replacement]
     IN
       IF replacement = THROW
       THEN /\ dynTask' = [dynTask EXCEPT ![m][j] = Failed("RESOLVE_DYNAMIC_IMPORT_ERROR")]
            /\ UNCHANGED <<externalModules, extConstructed, exportsNamespace, fetchCalls,
                           inFlightReturns, dynamicImportResolutions>>
            /\ UNCHANGED fetchVars
       ELSE IF replacement = NULL
       THEN /\ dynamicImportResolutions' =
                 [dynamicImportResolutions EXCEPT ![m][j] = [resolution |-> Undefined]]
            /\ dynTask' = [dynTask EXCEPT ![m][j] = Done]
            /\ UNCHANGED <<externalModules, extConstructed, exportsNamespace, fetchCalls, inFlightReturns>>
            /\ UNCHANGED fetchVars
       ELSE IF ~expr.str
       THEN /\ dynamicImportResolutions' =
                 [dynamicImportResolutions EXCEPT ![m][j] = [resolution |-> StringValue(replacement)]]
            /\ dynTask' = [dynTask EXCEPT ![m][j] = Done]
            /\ UNCHANGED <<externalModules, extConstructed, exportsNamespace, fetchCalls, inFlightReturns>>
            /\ UNCHANGED fetchVars
       ELSE IF isExternal(cfg, replacement)
       THEN /\ externalModules' = IF create
                                  THEN Append(externalModules, newExternal)
                                  ELSE externalModules
            /\ extConstructed' = IF create
                                 THEN [extConstructed EXCEPT ![replacement] = @ + 1]
                                 ELSE extConstructed
            \* line 635 files the importing module, not the new ExternalModule
            /\ moduleById' = IF create
                             THEN [moduleById EXCEPT ![replacement] = selfObj(m)]
                             ELSE moduleById
            /\ dynamicImportResolutions' =
                 [dynamicImportResolutions EXCEPT ![m][j] = [resolution |-> externalModule]]
            /\ exportsNamespace' = exportsNamespace \cup {externalModule}
            /\ dynTask' = [dynTask EXCEPT ![m][j] = Done]
            /\ UNCHANGED <<watchFiles, pc, constructed, loadCalls, regOrder, fetchCalls, inFlightReturns>>
       ELSE /\ fetchModule(replacement)
            /\ dynTask' = [dynTask EXCEPT ![m][j] = AfterFetch(replacement)]
            /\ dynamicImportResolutions' =
                 IF FetchResult(replacement) = "existing"
                 THEN [dynamicImportResolutions EXCEPT
                         ![m][j] = [resolution |-> moduleById[replacement]]]
                 ELSE dynamicImportResolutions
            /\ UNCHANGED <<externalModules, extConstructed, exportsNamespace>>
  /\ UNCHANGED <<cfg, round, firstOutcome, phase, buildError, modules, warnings, entryTask, err, staticTask,
                 resolvedIds, exportsAll, transformCalls, emittedAssets>>
  /\ UNCHANGED traced
  /\ UNCHANGED notDiscoveryVars

\* lines 642-644: the fetchModule chain a dynamic import started has resolved
DynamicFetched(m, j) ==
  /\ j \in 1..Len(dynTask[m])
  /\ dynTask[m][j].st = "wait"
  /\ pc[dynTask[m][j].child] = "done"
  /\ dynamicImportResolutions' =
       [dynamicImportResolutions EXCEPT
          ![m][j] = [resolution |-> selfObj(dynTask[m][j].child)]]
  /\ dynTask' = [dynTask EXCEPT ![m][j] = Done]
  /\ UNCHANGED <<cfg, round, firstOutcome, phase, buildError, moduleById, modules, externalModules,
                 watchFiles, warnings, entryTask, pc, err, staticTask, resolvedIds,
                 exportsAll, exportsNamespace, constructed, extConstructed, fetchCalls, inFlightReturns,
                 loadCalls, transformCalls, emittedAssets, regOrder>>
  /\ UNCHANGED traced
  /\ UNCHANGED notDiscoveryVars

(***************************************************************************)
(* fetchModule, lines 571-603: the re-export-all merge                     *)
(***************************************************************************)
\* exportsAll is an object used as a map: entries in insertion order
Keys(map) == { map[k].name : k \in 1..Len(map) }
Get(map, name) == map[CHOOSE k \in 1..Len(map) : map[k].name = name].from
Put(map, name, from) ==
  IF name \in Keys(map)
  THEN [k \in 1..Len(map) |-> IF map[k].name = name THEN [name |-> name, from |-> from]
                                                    ELSE map[k]]
  ELSE Append(map, [name |-> name, from |-> from])

NamespaceConflict(m, name, first, second) ==
  [code |-> "NAMESPACE_CONFLICT", reexporter |-> m, name |-> name,
   sources |-> <<first, second>>]

\* lines 572-576: the module's own exports, without `default`
RECURSIVE OwnExports(_, _, _)
OwnExports(map, names, m) ==
  IF names = <<>> THEN map
  ELSE OwnExports(IF Head(names) # "default" THEN Put(map, Head(names), m) ELSE map,
                  Tail(names), m)

\* lines 582-600: the names of one export-all module, in its insertion order;
\* acc is [all |-> module.exportsAll, warns |-> the warnings given]
RECURSIVE MergeNames(_, _, _)
MergeNames(acc, from, m) ==
  IF from = <<>> THEN acc
  ELSE LET e == Head(from) IN
       MergeNames(
         IF e.name \in Keys(acc.all)
         THEN [acc EXCEPT !.warns =
                 Append(@, NamespaceConflict(m, e.name, Get(acc.all, e.name), e.from))]
         ELSE [acc EXCEPT !.all = Append(@, e)],
         Tail(from), m)

\* lines 577-601: every export-all specifier in order; an external one is skipped
RECURSIVE MergeSources(_, _, _)
MergeSources(acc, sources, m) ==
  IF sources = <<>> THEN acc
  ELSE LET exportAllModule == moduleById[resolvedIds[m][Head(sources)]] IN
       MergeSources(
         IF IsExternalModule(exportAllModule) THEN acc
         ELSE MergeNames(acc,
                         IF exportAllModule.id = m THEN acc.all
                         ELSE exportsAll[exportAllModule.id],
                         m),
         Tail(sources), m)

\* Promise.all over module.sources has resolved
StaticDone(m) == \A i \in 1..Len(staticTask[m]) : TaskDone(staticTask[m][i])
\* mutant: line 727 does not hand fetchDynamicImportsPromise on
DynamicDoneNotAwaited(m) == TRUE

\* fetchDynamicImportsPromise has resolved
DynamicDone(m) == \A j \in 1..Len(dynTask[m]) : dynTask[m][j].st = "done"

\* line 727 then lines 571-603: fetchAllDependencies(module) resolved
FinishModule(m) ==
  /\ pc[m] = "deps"
  /\ StaticDone(m)
  /\ DynamicDone(m)
  /\ LET merged == MergeSources([all |-> OwnExports(exportsAll[m], Exports(m), m),
                                 warns |-> <<>>],
                                ExportAllSources(m), m)
     IN /\ exportsAll' = [exportsAll EXCEPT ![m] = merged.all]
        /\ warnings' = warnings \o merged.warns
  /\ pc' = [pc EXCEPT ![m] = "done"]
  /\ UNCHANGED <<cfg, round, firstOutcome, phase, buildError, moduleById, modules, externalModules,
                 watchFiles, entryTask, err, staticTask, dynTask, resolvedIds,
                 dynamicImportResolutions, exportsNamespace, constructed,
                 extConstructed, fetchCalls, inFlightReturns, loadCalls, transformCalls, emittedAssets,
                 regOrder>>
  /\ UNCHANGED traced
  /\ UNCHANGED notDiscoveryVars

\* mutant: the promise with the trailing catch (line 649) is the one handed on
DynamicRejectionsSwallowed(m) == {}

\* line 727, `.then(() => fetchDynamicImportsPromise)`: once the static
\* Promise.all has resolved, a rejection of the dynamic fan-out is handed on
DynamicRejections(m) ==
  IF StaticDone(m)
  THEN { TaskErr(dynTask[m][j]) :
           j \in { k \in 1..Len(dynTask[m]) : TaskFailed(dynTask[m][k]) } }
  ELSE {}

\* what fetchAllDependencies(module) can reject with now: a rejection of the
\* static Promise.all at once, one of the dynamic fan-out only through line 727
Rejections(m) ==
  { TaskErr(staticTask[m][i]) :
      i \in { k \in 1..Len(staticTask[m]) : TaskFailed(staticTask[m][k]) } }
  \cup DynamicRejections(m)

\* fetchAllDependencies(module) rejected, and with it fetchModule(module.id)
FailModule(m) ==
  /\ pc[m] = "deps"
  /\ \E e \in Rejections(m) :
       /\ pc' = [pc EXCEPT ![m] = "failed"]
       /\ err' = [err EXCEPT ![m] = e]
  /\ UNCHANGED <<cfg, round, firstOutcome, phase, buildError, moduleById, modules, externalModules,
                 watchFiles, warnings, entryTask, staticTask, dynTask, resolvedIds,
                 dynamicImportResolutions, exportsAll, exportsNamespace, constructed,
                 extConstructed, fetchCalls, inFlightReturns, loadCalls, transformCalls, emittedAssets,
                 regOrder>>
  /\ UNCHANGED traced
  /\ UNCHANGED notDiscoveryVars

(***************************************************************************)
(* loadEntryModules, lines 311-334: the join over the entries              *)
(***************************************************************************)
EntriesLoaded ==
  /\ phase = "phase1"
  /\ \A i \in 1..Len(entryTask) : TaskDone(entryTask[i])
  /\ phase' = "loaded"
  /\ UNCHANGED <<cfg, round, firstOutcome, buildError, moduleById, modules, externalModules, watchFiles,
                 warnings, entryTask, pc, err, staticTask, dynTask, resolvedIds,
                 dynamicImportResolutions, exportsAll, exportsNamespace, constructed,
                 extConstructed, fetchCalls, inFlightReturns, loadCalls, transformCalls, emittedAssets,
                 regOrder>>
  /\ UNCHANGED traced
  /\ UNCHANGED notDiscoveryVars

BuildRejected ==
  /\ phase = "phase1"
  /\ \E i \in 1..Len(entryTask) :
       /\ TaskFailed(entryTask[i])
       /\ buildError' = TaskErr(entryTask[i])
  /\ phase' = "rejected"
  /\ UNCHANGED <<cfg, round, firstOutcome, moduleById, modules, externalModules, watchFiles,
                 warnings, entryTask, pc, err, staticTask, dynTask, resolvedIds,
                 dynamicImportResolutions, exportsAll, exportsNamespace, constructed,
                 extConstructed, fetchCalls, inFlightReturns, loadCalls, transformCalls, emittedAssets,
                 regOrder>>
  /\ UNCHANGED traced
  /\ UNCHANGED notDiscoveryVars

Next ==
  \/ Build
  \/ \E i \in 1..3 : LoadModuleResolved(i)
  \/ \E id \in Ids : LoadDone(id)
  \/ \E id \in Ids : SourceReady(id)
  \/ \E m \in Ids, i \in 1..3 : StaticResolved(m, i)
  \/ \E m \in Ids, j \in 1..3 : DynamicResolved(m, j)
  \/ \E m \in Ids, j \in 1..3 : DynamicFetched(m, j)
  \/ \E m \in Ids : FinishModule(m)
  \/ \E m \in Ids : FailModule(m)
  \/ EntriesLoaded
  \/ BuildRejected

Spec == Init /\ [][Next]_vars

\* the module graph whose dynamic imports can fail
DynamicShapes == {5}

InitSettling == Init /\ cfg.shape \in DynamicShapes

\* every pending hook settles and every continuation of a settled promise runs
SpecSettling == InitSettling /\ [][Next]_vars /\ WF_vars(Next)

(***************************************************************************)
(* A second build of the same inputs with a fresh Graph                    *)
(***************************************************************************)
\* what the build future has settled with: the graph of a successful phase 1,
\* or the error of a rejected one
CurrentOutcome ==
  IF phase = "loaded"
  THEN Outcome(TRUE, None, modules, warnings)
  ELSE Outcome(FALSE, buildError, <<>>, <<>>)

\* the first build has settled: its outcome is kept and a new Graph is
\* constructed from the same options, with the same hooks
Rebuild ==
  /\ round = 1
  /\ phase \in {"loaded", "rejected"}
  /\ firstOutcome' = CurrentOutcome
  /\ round' = 2
  /\ cfg' = cfg
  /\ phase' = "new"
  /\ buildError' = None
  /\ moduleById' = [id \in Ids |-> NoObj]
  /\ modules' = <<>>
  /\ externalModules' = <<>>
  /\ watchFiles' = {}
  /\ warnings' = <<>>
  /\ entryTask' = <<>>
  /\ pc' = [id \in Ids |-> "none"]
  /\ err' = [id \in Ids |-> None]
  /\ staticTask' = [id \in Ids |-> <<>>]
  /\ dynTask' = [id \in Ids |-> <<>>]
  /\ resolvedIds' = [id \in Ids |-> [sp \in Specs |-> None]]
  /\ dynamicImportResolutions' = [id \in Ids |-> <<>>]
  /\ exportsAll' = [id \in Ids |-> <<>>]
  /\ exportsNamespace' = {}
  /\ constructed' = [id \in Ids |-> 0]
  /\ extConstructed' = [id \in Ids |-> 0]
  /\ fetchCalls' = [id \in Ids |-> 0]
  /\ loadCalls' = [id \in Ids |-> 0]
  /\ transformCalls' = [id \in Ids |-> 0]
  /\ emittedAssets' = <<>>
  /\ regOrder' = <<>>
  /\ inFlightReturns' = {}
  /\ traced' = {}
  /\ UNCHANGED notDiscoveryVars

\* the module graphs the two-build specification runs
TwoBuildShapes == {1, 5}

InitTwoBuilds == Init /\ cfg.shape \in TwoBuildShapes

NextTwoBuilds == Next \/ Rebuild

SpecTwoBuilds == InitTwoBuilds /\ [][NextTwoBuilds]_vars

(***************************************************************************)
(* A warm build: the next Graph is constructed with the cache of the first *)
(***************************************************************************)
\* Module.toJSON of a module of this.modules: its code and the resolvedIds
\* the build has written (lines 695 and 722)
toJSON(id) ==
  [present |-> TRUE, originalCode |-> Code(id), customTransformCache |-> FALSE,
   transformAssets |-> <<>>, resolvedIds |-> resolvedIds[id]]

\* getCache().modules, lines 218-221, by id
getCacheModules ==
  [id \in Ids |-> IF id \in ModIds /\ selfObj(id) \in Range(modules) THEN toJSON(id)
                  ELSE NotCached]

\* the branch lines 669-725 took for a specifier with no resolvedIds entry,
\* and the id line 695 or 722 filed for it
Classification(m, source) ==
  LET resolvedId == StaticResolvedId(cfg, None, source) IN
    Classified(IsExternalImport(cfg, m, source, resolvedId)
                 \/ Unresolved(cfg, m, source, resolvedId),
               resolvedIds[m][source])

\* the first build has succeeded: getCache() is taken from it and a new Graph
\* is constructed from the same options and hooks with that cache
RebuildWarm ==
  /\ round = 1
  /\ phase = "loaded"
  /\ cacheModules' = getCacheModules
  /\ coldImports' = [id \in Ids |-> [sp \in Specs |->
                        IF getCacheModules[id].present /\ sp \in Range(Sources(id))
                        THEN Classification(id, sp)
                        ELSE NotClassified]]
  /\ firstOutcome' = CurrentOutcome
  /\ round' = 2
  /\ cfg' = cfg
  /\ phase' = "new"
  /\ buildError' = None
  /\ moduleById' = [id \in Ids |-> NoObj]
  /\ modules' = <<>>
  /\ externalModules' = <<>>
  /\ watchFiles' = {}
  /\ warnings' = <<>>
  /\ entryTask' = <<>>
  /\ pc' = [id \in Ids |-> "none"]
  /\ err' = [id \in Ids |-> None]
  /\ staticTask' = [id \in Ids |-> <<>>]
  /\ dynTask' = [id \in Ids |-> <<>>]
  /\ resolvedIds' = [id \in Ids |-> [sp \in Specs |-> None]]
  /\ dynamicImportResolutions' = [id \in Ids |-> <<>>]
  /\ exportsAll' = [id \in Ids |-> <<>>]
  /\ exportsNamespace' = {}
  /\ constructed' = [id \in Ids |-> 0]
  /\ extConstructed' = [id \in Ids |-> 0]
  /\ fetchCalls' = [id \in Ids |-> 0]
  /\ loadCalls' = [id \in Ids |-> 0]
  /\ transformCalls' = [id \in Ids |-> 0]
  /\ emittedAssets' = <<>>
  /\ regOrder' = <<>>
  /\ inFlightReturns' = {}
  /\ traced' = {}
  /\ UNCHANGED <<bundleVars, cacheVars, externalVars, watcherVars>>

\* the module graphs the warm-build specification runs, without options.cache
\* for the first build
WarmShapes == {1, 5}

InitWarm == Init /\ cfg.shape \in WarmShapes /\ cfg.cache = 1

NextWarm == Next \/ RebuildWarm

SpecWarm == InitWarm /\ [][NextWarm]_vars

(***************************************************************************)
(* build after analyzeModuleExecution, lines 393-499: entry promotion,     *)
(* marking, tree-shaking and chunking, with inlineDynamicImports off       *)
(***************************************************************************)
\* the modules of a linked graph and their top-level statements; a statement
\* declares the binding of its own name
GraphIds == {"/a", "/b", "/c", "/d", "/e"}
StmtIds == {"a1", "a2", "b1", "b2", "c1", "c2", "d1", "e1"}
\* a binding imported from an external module
ExternalBinding == "ext.x"

NumPrograms == 7

NoStatements == [m \in GraphIds |-> <<>>]
NoRefs == [st \in StmtIds |-> {}]
NoExports == [m \in GraphIds |-> {}]
NoColour == [m \in GraphIds |-> {}]

\* what link and analyzeModuleExecution hand to the later phases:
\*   orderedModules  the modules in execution order
\*   statements      per module, its top-level statements in source order
\*   effects         the statements with side effects
\*   refs            per statement, the bindings it references
\*   exports         per module, the statements that produce its exports
\*   entries         build's entryModules
\*   dynamicImports  the modules reached through dynamic imports only
\*   manual          the modules of manual chunks
\*   reach           per module, the entries (or manual chunk) that colour it
LinkedGraph(n) ==
  CASE n = 1 ->  \* a chain of references against the execution order
    [orderedModules |-> <<"/c", "/b", "/a">>,
     statements |-> ("/a" :> <<"a1">>) @@ ("/b" :> <<"b1", "b2">>)
                    @@ ("/c" :> <<"c1", "c2">>) @@ NoStatements,
     effects |-> {"a1"},
     refs |-> ("a1" :> {"b1", ExternalBinding}) @@ ("b1" :> {"c1"}) @@ NoRefs,
     exports |-> NoExports,
     entries |-> <<"/a">>,
     dynamicImports |-> <<>>,
     manual |-> {},
     reach |-> ("/a" :> {"/a"}) @@ ("/b" :> {"/a"}) @@ ("/c" :> {"/a"}) @@ NoColour]
  [] n = 2 ->    \* an export as the only root, a module nothing is kept of
    [orderedModules |-> <<"/b", "/a">>,
     statements |-> ("/a" :> <<"a1", "a2">>) @@ ("/b" :> <<"b1">>) @@ NoStatements,
     effects |-> {},
     refs |-> ("a1" :> {"a2"}) @@ NoRefs,
     exports |-> ("/a" :> {"a1"}) @@ NoExports,
     entries |-> <<"/a">>,
     dynamicImports |-> <<>>,
     manual |-> {},
     reach |-> ("/a" :> {"/a"}) @@ ("/b" :> {"/a"}) @@ NoColour]
  [] n = 3 ->    \* references in a cycle, a dynamically imported module
    [orderedModules |-> <<"/b", "/a", "/c">>,
     statements |-> ("/a" :> <<"a1", "a2">>) @@ ("/b" :> <<"b1", "b2">>)
                    @@ ("/c" :> <<"c1", "c2">>) @@ NoStatements,
     effects |-> {"a1"},
     refs |-> ("a1" :> {"b1"}) @@ ("b1" :> {"a2"}) @@ ("a2" :> {"b1"})
              @@ ("c1" :> {"b2"}) @@ NoRefs,
     exports |-> ("/c" :> {"c1"}) @@ NoExports,
     entries |-> <<"/a">>,
     dynamicImports |-> <<"/c">>,
     manual |-> {},
     reach |-> ("/a" :> {"/a"}) @@ ("/b" :> {"/a", "/c"}) @@ ("/c" :> {"/c"}) @@ NoColour]
  [] n = 4 ->    \* nothing has an effect and nothing is exported
    [orderedModules |-> <<"/b", "/a">>,
     statements |-> ("/a" :> <<"a1">>) @@ ("/b" :> <<"b1">>) @@ NoStatements,
     effects |-> {},
     refs |-> ("a1" :> {"b1"}) @@ NoRefs,
     exports |-> NoExports,
     entries |-> <<"/a">>,
     dynamicImports |-> <<>>,
     manual |-> {},
     reach |-> ("/a" :> {"/a"}) @@ ("/b" :> {"/a"}) @@ NoColour]
  [] n = 5 ->    \* a manual chunk nothing is kept of
    [orderedModules |-> <<"/c", "/b", "/a">>,
     statements |-> ("/a" :> <<"a1">>) @@ ("/b" :> <<"b1">>) @@ ("/c" :> <<"c1">>)
                    @@ NoStatements,
     effects |-> {"a1"},
     refs |-> ("b1" :> {"c1"}) @@ NoRefs,
     exports |-> ("/b" :> {"b1"}) @@ NoExports,
     entries |-> <<"/a">>,
     dynamicImports |-> <<>>,
     manual |-> {"/b", "/c"},
     reach |-> ("/a" :> {"/a"}) @@ ("/b" :> {"manual"}) @@ ("/c" :> {"manual"}) @@ NoColour]
  [] n = 6 ->    \* two entries; /c is used by /a, /d and /e are shared and unused
    [orderedModules |-> <<"/c", "/d", "/e", "/a", "/b">>,
     statements |-> ("/a" :> <<"a1">>) @@ ("/b" :> <<"b1">>) @@ ("/c" :> <<"c1", "c2">>)
                    @@ ("/d" :> <<"d1">>) @@ ("/e" :> <<"e1">>) @@ NoStatements,
     effects |-> {"a1", "b1"},
     refs |-> ("a1" :> {"c1"}) @@ ("d1" :> {"e1"}) @@ NoRefs,
     exports |-> NoExports,
     entries |-> <<"/a", "/b">>,
     dynamicImports |-> <<>>,
     manual |-> {},
     reach |-> ("/a" :> {"/a"}) @@ ("/b" :> {"/b"}) @@ ("/c" :> {"/a"})
               @@ ("/d" :> {"/a", "/b"}) @@ ("/e" :> {"/a", "/b"}) @@ NoColour]
  [] OTHER ->    \* dynamic imports of a manual chunk module, of the entry, and twice of /b
    [orderedModules |-> <<"/c", "/b", "/a">>,
     statements |-> ("/a" :> <<"a1">>) @@ ("/b" :> <<"b1">>) @@ ("/c" :> <<"c1", "c2">>)
                    @@ NoStatements,
     effects |-> {"a1"},
     refs |-> NoRefs,
     exports |-> ("/a" :> {"a1"}) @@ ("/b" :> {"b1"}) @@ ("/c" :> {"c1"}) @@ NoExports,
     entries |-> <<"/a">>,
     dynamicImports |-> <<"/b", "/a", "/c", "/b">>,
     manual |-> {"/b"},
     reach |-> ("/a" :> {"/a"}) @@ ("/b" :> {"manual"}) @@ ("/c" :> {"/c"}) @@ NoColour]

\* the graph and the options of this run
Program == LinkedGraph(linked.program)
orderedModules == Program.orderedModules

\* the hash of an entry's id, as the set of its bits that are 1
HashOfId(id) ==
  CASE id = "/a" -> {1, 3}
    [] id = "/b" -> {2, 3}
    [] id = "/c" -> {1, 2, 4}
    [] OTHER -> {4}

\* XOR of two hashes
Xor(h1, h2) == (h1 \ h2) \cup (h2 \ h1)

RECURSIVE XorAll(_)
XorAll(ids) ==
  IF ids = {} THEN {}
  ELSE LET id == CHOOSE x \in ids : TRUE IN Xor(HashOfId(id), XorAll(ids \ {id}))

\* the entries that reach a module: dynamic imports cut the reach of an entry
\* unless inlineDynamicImports is on, where the single entry reaches them too
colouredBy(m) ==
  IF linked.inlineDynamicImports /\ Program.reach[m] \subseteq GraphIds
  THEN {Program.entries[1]}
  ELSE Program.reach[m]

\* Module.entryPointsHash: all zero, then XOR-ed with the hash of each
\* entry that reaches the module
entryPointsHash(m) == XorAll(colouredBy(m))

\* Module.isIncluded
isIncluded(m, inc) == \E k \in 1..Len(Program.statements[m]) : Program.statements[m][k] \in inc

\* Module.isEntryPoint
isEntryPoint(m) == m \in Range(entryModules)

AllStatements == UNION { Range(Program.statements[m]) : m \in Range(orderedModules) }

\* entryModuleAliases[i], lines 292-316
entryModuleAliases(i) == IF i = 1 THEN "entry1" ELSE "entry2"

\* dynamicImportAliases[i], as analyzeModuleExecution yields them
dynamicImportAliases(i) == IF i = 1 THEN "dynamic1" ELSE IF i = 2 THEN "dynamic2" ELSE "dynamic3"

\* Module.chunkAlias when analyzeModuleExecution has returned: the modules of
\* a manual chunk carry the alias of that chunk
analysedChunkAlias(n) ==
  [m \in GraphIds |-> IF m \in LinkedGraph(n).manual THEN "manual" ELSE None]

\* lines 393-397: the entry modules get their configured alias, last to first
RECURSIVE aliasEntries(_, _, _)
aliasEntries(alias, entries, i) ==
  IF i = 0 THEN alias
  ELSE aliasEntries([alias EXCEPT ![entries[i]] = entryModuleAliases(i)], entries, i - 1)

\* mutant: the alias of the dynamic import is assigned whether or not the
\* module has one
PromotedAliasOverwritten(alias, m, i) == dynamicImportAliases(i)

\* line 414: `if (!dynamicImportModule.chunkAlias)`
PromotedAlias(alias, m, i) == IF alias[m] = None THEN dynamicImportAliases(i) ELSE alias[m]

\* mutant: every dynamic import is pushed, also one that is an entry already
NotYetEntryUnchecked(entries, m) == TRUE

\* line 411: `entryModules.indexOf(dynamicImportModule) === -1`
NotYetEntry(entries, m) == m \notin Range(entries)

\* lines 410-417: the dynamic imports from the i-th on are pushed onto the
\* entry modules; yields the entries and the aliases
RECURSIVE promote(_, _, _, _)
promote(entries, alias, dyn, i) ==
  IF i > Len(dyn) THEN [entryModules |-> entries, chunkAlias |-> alias]
  ELSE IF NotYetEntry(entries, dyn[i])
       THEN promote(Append(entries, dyn[i]),
                    [alias EXCEPT ![dyn[i]] = PromotedAlias(alias, dyn[i], i)], dyn, i + 1)
       ELSE promote(entries, alias, dyn, i + 1)

\* lines 403-407: with inlineDynamicImports markPublicExports is invoked on
\* every dynamic import that is not the entry module
RECURSIVE inlineMarked(_, _, _)
inlineMarked(calls, dyn, entryModule) ==
  IF dyn = <<>> THEN calls
  ELSE inlineMarked(IF Head(dyn) # entryModule
                    THEN [calls EXCEPT ![Head(dyn)] = @ + 1] ELSE calls,
                    Tail(dyn), entryModule)

\* markPublicExports and the inclusion of a namespace mark the statements
\* that produce the exports of the module
publicExports(mods) == UNION { Program.exports[m] : m \in mods }

\* lines 393-418: aliases of the entries; then with inlineDynamicImports the
\* dynamic imports are marked and their namespaces included (an error with
\* more than one entry), without it they become entries
PromoteDynamicImports ==
  /\ at = "analysed"
  /\ LET aliased == aliasEntries(chunkAlias, entryModules, Len(entryModules))
         promoted == promote(entryModules, aliased, Program.dynamicImports, 1)
     IN
       IF linked.inlineDynamicImports
       THEN IF Len(entryModules) > 1
            THEN /\ at' = "rejected"
                 /\ buildError' = "INLINE_MULTIPLE_ENTRIES"
                 /\ chunkAlias' = aliased
                 /\ UNCHANGED <<entryModules, markPublicCalls, referenced>>
            ELSE /\ at' = "mark"
                 /\ chunkAlias' = aliased
                 /\ markPublicCalls' =
                      inlineMarked(markPublicCalls, Program.dynamicImports, entryModules[1])
                 /\ referenced' = referenced \cup publicExports(Range(Program.dynamicImports))
                 /\ UNCHANGED <<entryModules, buildError>>
       ELSE /\ at' = "mark"
            /\ entryModules' = promoted.entryModules
            /\ chunkAlias' = promoted.chunkAlias
            /\ UNCHANGED <<markPublicCalls, referenced, buildError>>
  /\ UNCHANGED <<linked, included, needsTreeshakingPass, treeshakingPass,
                 moduleIndex, chunks, moduleChunk, finished, warnings>>
  /\ UNCHANGED discoveryVars
  /\ UNCHANGED notBundleVars

\* line 425: entryModule.markPublicExports() for every entry module
MarkPublicExports ==
  /\ at = "mark"
  /\ referenced' = referenced \cup publicExports(Range(entryModules))
  /\ markPublicCalls' = [m \in GraphIds |->
                           markPublicCalls[m] + IF m \in Range(entryModules) THEN 1 ELSE 0]
  /\ at' = "include"
  /\ UNCHANGED <<linked, entryModules, included, needsTreeshakingPass, treeshakingPass,
                 moduleIndex, chunks, moduleChunk, finished, chunkAlias>>
  /\ UNCHANGED <<buildError, warnings>>
  /\ UNCHANGED discoveryVars
  /\ UNCHANGED notBundleVars

\* includeMarked with tree-shaking off, lines 276-279
IncludeAllInBundle ==
  /\ at = "include"
  /\ ~linked.treeshake
  /\ included' = AllStatements
  /\ referenced' = referenced \cup UNION { Program.refs[st] : st \in AllStatements }
  /\ at' = "chunks"
  /\ UNCHANGED <<linked, entryModules, needsTreeshakingPass, treeshakingPass,
                 moduleIndex, chunks, moduleChunk>>
  /\ UNCHANGED <<cfg, phase, buildError, moduleById, modules, externalModules, watchFiles,
                 warnings, entryTask, pc, err, staticTask, dynTask, resolvedIds,
                 dynamicImportResolutions, exportsAll, exportsNamespace, constructed,
                 extConstructed, fetchCalls, loadCalls, transformCalls, emittedAssets,
                 regOrder, inFlightReturns, round, firstOutcome, traced>>
  /\ UNCHANGED <<finished, chunkAlias, markPublicCalls>>
  /\ UNCHANGED notBundleVars

\* a statement includes itself if it has side effects or if a binding it
\* declares is referenced by an included node or marked as exported
shouldBeIncluded(st, ref) == st \in Program.effects \/ st \in ref

\* Module.include: visits the top-level statements in order; yields the
\* inclusion state after the visit and whether the visit changed it
RECURSIVE includeStatements(_, _, _, _)
includeStatements(stmts, inc, ref, changed) ==
  IF stmts = <<>>
  THEN [included |-> inc, referenced |-> ref, changed |-> changed]
  ELSE LET st == Head(stmts) IN
       IF st \notin inc /\ shouldBeIncluded(st, ref)
       THEN includeStatements(Tail(stmts), inc \cup {st}, ref \cup Program.refs[st], TRUE)
       ELSE includeStatements(Tail(stmts), inc, ref, changed)

moduleInclude(m, inc, ref) == includeStatements(Program.statements[m], inc, ref, FALSE)

\* mutant: the for loop leaves the pass at the first module that reports a change
NextModuleBreakingOnChange(index, changed) ==
  IF changed THEN Len(orderedModules) + 1 ELSE index + 1

\* lines 270-274: `for (const module of modules)` goes on to the next module
\* whatever include() returned
NextModule(index, changed) == index + 1

\* includeMarked, lines 269-273: one turn of `for (const module of modules)`
IncludeModule ==
  /\ at = "include"
  /\ linked.treeshake
  /\ moduleIndex <= Len(orderedModules)
  /\ LET r == moduleInclude(orderedModules[moduleIndex], included, referenced) IN
       /\ included' = r.included
       /\ referenced' = r.referenced
       /\ needsTreeshakingPass' = (r.changed \/ needsTreeshakingPass)
       /\ moduleIndex' = NextModule(moduleIndex, r.changed)
  /\ UNCHANGED <<linked, at, entryModules, treeshakingPass, chunks, moduleChunk>>
  /\ UNCHANGED <<cfg, phase, buildError, moduleById, modules, externalModules, watchFiles,
                 warnings, entryTask, pc, err, staticTask, dynTask, resolvedIds,
                 dynamicImportResolutions, exportsAll, exportsNamespace, constructed,
                 extConstructed, fetchCalls, loadCalls, transformCalls, emittedAssets,
                 regOrder, inFlightReturns, round, firstOutcome, traced>>
  /\ UNCHANGED <<finished, chunkAlias, markPublicCalls>>
  /\ UNCHANGED notBundleVars

\* mutant: a single pass, as if the do-while were a plain block
RunsAnotherPassNever(needs) == FALSE

\* line 275: `while (needsTreeshakingPass)`
RunsAnotherPass(needs) == needs

\* includeMarked, lines 267-268 and 274-275: the end of a pass over the modules
TreeshakingPassEnd ==
  /\ at = "include"
  /\ linked.treeshake
  /\ moduleIndex > Len(orderedModules)
  /\ IF RunsAnotherPass(needsTreeshakingPass)
     THEN /\ treeshakingPass' = treeshakingPass + 1
          /\ needsTreeshakingPass' = FALSE
          /\ moduleIndex' = 1
          /\ at' = at
     ELSE /\ treeshakingPass' = treeshakingPass + 1
          /\ at' = "chunks"
          /\ UNCHANGED <<needsTreeshakingPass, moduleIndex>>
  /\ UNCHANGED <<linked, entryModules, referenced, included, chunks, moduleChunk>>
  /\ UNCHANGED <<cfg, phase, buildError, moduleById, modules, externalModules, watchFiles,
                 warnings, entryTask, pc, err, staticTask, dynTask, resolvedIds,
                 dynamicImportResolutions, exportsAll, exportsNamespace, constructed,
                 extConstructed, fetchCalls, loadCalls, transformCalls, emittedAssets,
                 regOrder, inFlightReturns, round, firstOutcome, traced>>
  /\ UNCHANGED <<finished, chunkAlias, markPublicCalls>>
  /\ UNCHANGED notBundleVars

\* the first entry module among these modules, if any
RECURSIVE firstEntryPoint(_)
firstEntryPoint(mods) ==
  IF mods = <<>> THEN None
  ELSE IF isEntryPoint(Head(mods)) THEN Head(mods) ELSE firstEntryPoint(Tail(mods))

\* new Chunk(this, orderedModules): a chunk is empty if none of its modules
\* is included, the home of the entry module it holds, a manual chunk if it
\* holds a module of one, and an entry module facade if the entry module is
\* the only module that colours there
Chunk(mods) ==
  [id |-> IF mods = <<>> THEN None ELSE Head(mods),
   facade |-> FALSE,
   modules |-> mods,
   isEmpty |-> \A k \in 1..Len(mods) : ~isIncluded(mods[k], included),
   entryModule |-> firstEntryPoint(mods),
   isManualChunk |-> \E k \in 1..Len(mods) : mods[k] \in Program.manual,
   isEntryModuleFacade |-> Len(mods) = 1 /\ firstEntryPoint(mods) # None]

\* lines 445-449: with preserveModules a chunk per module, which is its
\* entry module if it is an entry point or the chunk is not empty
PreservedChunk(m) ==
  [Chunk(<<m>>) EXCEPT !.entryModule = IF isEntryPoint(m) \/ ~Chunk(<<m>>).isEmpty
                                        THEN m ELSE None,
                       !.isEntryModuleFacade = isEntryPoint(m) \/ ~Chunk(<<m>>).isEmpty]

\* mutant: only the leading bits of the hash make the key of a group
SameKeyTruncated(m, key) == entryPointsHash(m) \cap {3, 4} = entryPointsHash(key) \cap {3, 4}

\* lines 453-455: chunkModules[entryPointsHashStr] is the group of module `key`
SameKey(m, key) == entryPointsHash(m) = entryPointsHash(key)

\* lines 452-460: the first module of each group, in the order the keys of
\* chunkModules were inserted
RECURSIVE groupHeads(_, _)
groupHeads(mods, heads) ==
  IF mods = <<>> THEN heads
  ELSE groupHeads(Tail(mods),
                  IF \E k \in 1..Len(heads) : SameKey(Head(mods), heads[k])
                  THEN heads ELSE Append(heads, Head(mods)))

\* lines 452-460: the modules pushed onto the group of `key`, in execution order
RECURSIVE groupOf(_, _)
groupOf(mods, key) ==
  IF mods = <<>> THEN <<>>
  ELSE IF SameKey(Head(mods), key)
       THEN <<Head(mods)>> \o groupOf(Tail(mods), key)
       ELSE groupOf(Tail(mods), key)

\* lines 443-468: the chunks as constructed
newChunks ==
  IF linked.preserveModules
  THEN [k \in 1..Len(orderedModules) |-> PreservedChunk(orderedModules[k])]
  ELSE LET heads == groupHeads(orderedModules, <<>>) IN
       [k \in 1..Len(heads) |-> Chunk(groupOf(orderedModules, heads[k]))]

\* the chunk that was constructed last around module m
chunkAround(m, cs) ==
  LET ks == { k \in 1..Len(cs) : m \in Range(cs[k].modules) } IN
  IF ks = {} THEN NoChunk ELSE cs[CHOOSE k \in ks : \A j \in ks : j <= k]

\* lines 443-468
GenerateChunks ==
  /\ at = "chunks"
  /\ chunks' = newChunks
  /\ moduleChunk' = [m \in Range(orderedModules) |-> chunkAround(m, newChunks)]
  /\ at' = "link"
  /\ UNCHANGED <<linked, entryModules, referenced, included, needsTreeshakingPass,
                 treeshakingPass, moduleIndex>>
  /\ UNCHANGED <<cfg, phase, buildError, moduleById, modules, externalModules, watchFiles,
                 warnings, entryTask, pc, err, staticTask, dynTask, resolvedIds,
                 dynamicImportResolutions, exportsAll, exportsNamespace, constructed,
                 extConstructed, fetchCalls, loadCalls, transformCalls, emittedAssets,
                 regOrder, inFlightReturns, round, firstOutcome, traced>>
  /\ UNCHANGED <<finished, chunkAlias, markPublicCalls>>
  /\ UNCHANGED notBundleVars

\* mutant: only the chunks that are not empty stay
KeptOnlyIfNotEmpty(chunk) == ~chunk.isEmpty

\* line 477: `!chunk.isEmpty || chunk.entryModule || chunk.isManualChunk`
Kept(chunk) == ~chunk.isEmpty \/ chunk.entryModule # None \/ chunk.isManualChunk

\* lines 470-484: the chunks are linked, the empty ones dropped, the exports
\* of the entry chunks populated
LinkAndFilter ==
  /\ at = "link"
  /\ chunks' = SelectSeq(chunks, Kept)
  /\ at' = "facades"
  /\ UNCHANGED <<linked, entryModules, referenced, included, needsTreeshakingPass,
                 treeshakingPass, moduleIndex, moduleChunk>>
  /\ UNCHANGED <<cfg, phase, buildError, moduleById, modules, externalModules, watchFiles,
                 warnings, entryTask, pc, err, staticTask, dynTask, resolvedIds,
                 dynamicImportResolutions, exportsAll, exportsNamespace, constructed,
                 extConstructed, fetchCalls, loadCalls, transformCalls, emittedAssets,
                 regOrder, inFlightReturns, round, firstOutcome, traced>>
  /\ UNCHANGED <<finished, chunkAlias, markPublicCalls>>
  /\ UNCHANGED notBundleVars

\* lines 489-490: new Chunk(this, []) linked as the facade of an entry module
FacadeChunk(entryModule) ==
  [id |-> entryModule, facade |-> TRUE, modules |-> <<>>, isEmpty |-> TRUE,
   entryModule |-> entryModule, isManualChunk |-> FALSE, isEntryModuleFacade |-> TRUE]

\* lines 488-492: a facade for every entry module whose chunk is none
RECURSIVE entryPointFacades(_)
entryPointFacades(entries) ==
  IF entries = <<>> THEN <<>>
  ELSE IF ~moduleChunk[Head(entries)].isEntryModuleFacade
       THEN <<FacadeChunk(Head(entries))>> \o entryPointFacades(Tail(entries))
       ELSE entryPointFacades(Tail(entries))

\* lines 486-500: the facades are pushed and build returns the chunks
CreateFacades ==
  /\ at = "facades"
  /\ chunks' = IF linked.preserveModules THEN chunks
               ELSE chunks \o entryPointFacades(entryModules)
  /\ finished' = TRUE
  /\ at' = "returned"
  /\ UNCHANGED <<linked, entryModules, referenced, included, needsTreeshakingPass,
                 treeshakingPass, moduleIndex, moduleChunk, chunkAlias, markPublicCalls>>
  /\ UNCHANGED <<cfg, phase, buildError, moduleById, modules, externalModules, watchFiles,
                 warnings, entryTask, pc, err, staticTask, dynTask, resolvedIds,
                 dynamicImportResolutions, exportsAll, exportsNamespace, constructed,
                 extConstructed, fetchCalls, loadCalls, transformCalls, emittedAssets,
                 regOrder, inFlightReturns, round, firstOutcome, traced>>
  /\ UNCHANGED notBundleVars

\* cyclePaths, as analyzeModuleExecution yields them
cyclePaths(n) == IF n = 3 THEN << <<"/a", "/b", "/a">> >> ELSE <<>>

\* lines 385-391: a warning for every cycle path
CircularDependencyWarnings(paths) ==
  [k \in 1..Len(paths) |-> [code |-> "CIRCULAR_DEPENDENCY", importer |-> paths[k][1]]]

\* line 317: the modules that loadEntryModules resolves with as entryModules
loadedEntryModules ==
  [i \in 1..Len(Entries(cfg.shape)) |-> moduleById[entryTask[i].child]]

\* mutant: the entries are not compared at all
HasDuplicateNever(mods, i) == FALSE

\* line 359: `entryModules.indexOf(entryModule, i + 1) !== -1`
HasDuplicate(mods, i) == \E j \in (i + 1)..Len(mods) : mods[j] = mods[i]

\* the options of build and the graphs that linking and analysis may yield
LinkedInputs ==
  [program : 1..NumPrograms, treeshake : BOOLEAN, preserveModules : BOOLEAN,
   inlineDynamicImports : BOOLEAN]

\* lines 351-391: the callback of loadEntryModules starts: duplicate entries
\* are an error; else the modules are linked and their execution analysed
Analyse ==
  /\ phase = "loaded"
  /\ at = "discovery"
  /\ IF \E i \in 1..Len(loadedEntryModules) : HasDuplicate(loadedEntryModules, i)
     THEN /\ at' = "rejected"
          /\ buildError' = "DUPLICATE_ENTRY_POINTS"
          /\ UNCHANGED <<linked, entryModules, chunkAlias, markPublicCalls, warnings>>
     ELSE \E l \in LinkedInputs :
          /\ linked' = l
          /\ at' = "analysed"
          /\ warnings' = warnings \o CircularDependencyWarnings(cyclePaths(l.program))
          /\ entryModules' = LinkedGraph(l.program).entries
          /\ chunkAlias' = analysedChunkAlias(l.program)
          /\ markPublicCalls' = [m \in GraphIds |-> 0]
          /\ UNCHANGED buildError
  /\ UNCHANGED <<referenced, included, needsTreeshakingPass, treeshakingPass, moduleIndex,
                 chunks, moduleChunk, finished>>
  /\ UNCHANGED discoveryVars
  /\ UNCHANGED notBundleVars

\* build has come to line 393 with one of the linked graphs; the later phases
\* read none of the fields that discovery wrote
InitBundle ==
  /\ NewGraph
  /\ cfg = [shape |-> 1, res |-> 1, ext |-> 1, cache |-> 1, load |-> 1]
  /\ linked \in LinkedInputs
  /\ at = "analysed"
  /\ entryModules = LinkedGraph(linked.program).entries
  /\ referenced = {}
  /\ included = {}
  /\ needsTreeshakingPass = FALSE
  /\ treeshakingPass = 1
  /\ moduleIndex = 1
  /\ chunks = <<>>
  /\ moduleChunk = <<>>
  /\ finished = FALSE
  /\ chunkAlias = analysedChunkAlias(linked.program)
  /\ markPublicCalls = [m \in GraphIds |-> 0]
  /\ NoPluginCache
  /\ NoExternalCall
  /\ NoWatcher
  /\ NoWarmCache

NextBundle ==
  \/ PromoteDynamicImports
  \/ MarkPublicExports
  \/ IncludeAllInBundle
  \/ IncludeModule
  \/ TreeshakingPassEnd
  \/ GenerateChunks
  \/ LinkAndFilter
  \/ CreateFacades

SpecBundle == InitBundle /\ [][NextBundle]_vars

\* includeMarked is a synchronous loop: once called it runs until it returns
SpecIncludeMarked ==
  SpecBundle /\ WF_vars(IncludeModule) /\ WF_vars(TreeshakingPassEnd)

(***************************************************************************)
(* The whole of build: discovery, then the later phases                    *)
(***************************************************************************)
\* the inputs the whole build is run on
BuildConfigs == { c \in Configs : c.ext = 1 /\ c.res \in {1, 2} }

InitBuild == Init /\ cfg \in BuildConfigs

NextBuild == Next \/ Analyse \/ NextBundle

SpecBuild == InitBuild /\ [][NextBuild]_vars

(***************************************************************************)
(* The plugin cache over builds: constructor lines 90-100, getCache        *)
(* lines 206-222; each Graph is constructed on the cache the previous one  *)
(* returned                                                                *)
(***************************************************************************)
Plugins == {"p", "q"}
CacheKeys == {"k1", "k2"}
CacheValues == {"v", "w"}

MaxBuilds == 4
MaxExpiry == 3

\* an entry [counter, value]
Entry(counter, value) == <<counter, value>>

\* the caches the first Graph may be handed: none, one with an empty bucket
\* and stale entries, one with fresh entries in two buckets
InitialCaches ==
  { <<>>,
    ("p" :> <<>>) @@ ("q" :> (("k1" :> Entry(2, "v")) @@ ("k2" :> Entry(0, "w")))),
    ("p" :> ("k1" :> Entry(0, "v"))) @@ ("q" :> ("k1" :> Entry(1, "w"))) }

\* options.experimentalCacheExpiry: not given, or a number
Expiries ==
  { [defined |-> FALSE, value |-> 0] } \cup { [defined |-> TRUE, value |-> n] : n \in 0..MaxExpiry }

NeverSet == [set |-> FALSE, at |-> 0]
SetAt(n) == [set |-> TRUE, at |-> n]

HasEntry(cache, name, key) == name \in DOMAIN cache /\ key \in DOMAIN cache[name]

\* lines 94-98: `cache[key][0]++` for every key of every plugin cache
incrementCounters(cache) ==
  [name \in DOMAIN cache |->
     [key \in DOMAIN cache[name] |-> Entry(cache[name][key][1] + 1, cache[name][key][2])]]

\* lines 82-100: a Graph is constructed on the cache that was returned last
Construct ==
  /\ cacheAt \in {"fresh", "returned"}
  /\ buildNumber < MaxBuilds
  /\ pluginCache' = incrementCounters(pluginCache)
  /\ buildNumber' = buildNumber + 1
  /\ cacheAt' = "constructed"
  /\ UNCHANGED <<cacheExpiry, lastSet>>
  /\ UNCHANGED notCacheVars

\* a plugin reads or writes an entry of its cache while the Graph builds:
\* the entry is [0, value] afterwards
PluginAccess(name, key, value) ==
  /\ cacheAt = "constructed"
  /\ pluginCache' =
       (name :> ((key :> Entry(0, value))
                 @@ (IF name \in DOMAIN pluginCache THEN pluginCache[name] ELSE <<>>)))
       @@ pluginCache
  /\ lastSet' = [lastSet EXCEPT ![<<name, key>>] = SetAt(buildNumber)]
  /\ UNCHANGED <<cacheExpiry, buildNumber, cacheAt>>
  /\ UNCHANGED notCacheVars

\* mutant: an entry is evicted only when its counter is beyond cacheExpiry
ExpiredOnlyBeyond(counter) == cacheExpiry.defined /\ counter > cacheExpiry.value

\* line 212: `cache[key][0] >= this.cacheExpiry`, false for an undefined cacheExpiry
Expired(counter) == cacheExpiry.defined /\ counter >= cacheExpiry.value

\* lines 211-214: the keys of a plugin cache that are not deleted
keptKeys(cache) == { key \in DOMAIN cache : ~Expired(cache[key][1]) }

\* lines 208-216: expired entries are deleted, and plugin caches with them
\* when none of their entries is left
evict(cache) ==
  [name \in { n \in DOMAIN cache : keptKeys(cache[n]) # {} } |->
     [key \in keptKeys(cache[name]) |-> cache[name][key]]]

\* getCache, lines 206-222
GetCache ==
  /\ cacheAt \in {"constructed", "returned"}
  /\ pluginCache' = evict(pluginCache)
  /\ cacheAt' = "returned"
  /\ UNCHANGED <<cacheExpiry, buildNumber, lastSet>>
  /\ UNCHANGED notCacheVars

\* the first Graph is about to be constructed on one of the caches
InitCache ==
  /\ NewGraph
  /\ cfg = [shape |-> 1, res |-> 1, ext |-> 1, cache |-> 1, load |-> 1]
  /\ NotAnalysed
  /\ pluginCache \in InitialCaches
  /\ cacheExpiry \in Expiries
  /\ buildNumber = 0
  /\ cacheAt = "fresh"
  /\ lastSet = [e \in Plugins \X CacheKeys |->
                  IF HasEntry(pluginCache, e[1], e[2])
                  THEN SetAt(0 - pluginCache[e[1]][e[2]][1]) ELSE NeverSet]
  /\ NoExternalCall
  /\ NoWatcher
  /\ NoWarmCache

NextCache ==
  \/ Construct
  \/ \E name \in Plugins, key \in CacheKeys, value \in CacheValues : PluginAccess(name, key, value)
  \/ GetCache

SpecCache == InitCache /\ [][NextCache]_vars

(***************************************************************************)
(* isExternal for every form of options.external, lines 144-152            *)
(***************************************************************************)
\* this.isExternal(id, parentId, isResolved) is called
IsExternalCalled(id) ==
  /\ externalCall' = id
  /\ externalResult' = isExternalFor(external, id)
  /\ UNCHANGED external
  /\ UNCHANGED notExternalVars

InitExternal ==
  /\ NewGraph
  /\ cfg = [shape |-> 1, res |-> 1, ext |-> 1, cache |-> 1, load |-> 1]
  /\ NotAnalysed
  /\ NoPluginCache
  /\ external \in ExternalOptions
  /\ externalCall = None
  /\ externalResult = FALSE
  /\ NoWatcher
  /\ NoWarmCache

NextExternal == \E id \in ExternalIds : IsExternalCalled(id)

SpecExternal == InitExternal /\ [][NextExternal]_vars

(***************************************************************************)
(* The watcher, lines 136-142                                              *)
(***************************************************************************)
\* how many events the watcher emits
MaxEvents == 4

\* ids of files the watcher reports
WatchedIds == {"/a", "/b"}

\* a listener of the watcher: added with `on` or with `once`
Listener(fn, once) == [fn |-> fn, once |-> once]

\* line 137: handleChange; line 139: the arrow function handed to `once`
handleChange == Listener("handleChange", FALSE)
detach == Listener("detach", TRUE)
\* a listener somebody else added to the same watcher
foreign == Listener("foreign", FALSE)

\* EventEmitter.removeListener: takes out the listener added last, if any
removeListener(listeners, l) ==
  IF \E k \in 1..Len(listeners) : listeners[k] = l
  THEN LET last == CHOOSE k \in 1..Len(listeners) :
                     /\ listeners[k] = l
                     /\ \A j \in (k + 1)..Len(listeners) : listeners[j] # l
       IN [k \in 1..(Len(listeners) - 1) |->
             IF k < last THEN listeners[k] ELSE listeners[k + 1]]
  ELSE listeners

\* the listeners that stay after an emit: those added with `once` are taken out
RECURSIVE withoutOnce(_)
withoutOnce(listeners) ==
  IF listeners = <<>> THEN <<>>
  ELSE IF Head(listeners).once THEN withoutOnce(Tail(listeners))
  ELSE <<Head(listeners)>> \o withoutOnce(Tail(listeners))

\* mutant: the listener of 'restart' leaves handleChange in place
DetachKeepsListening(listeners) == listeners

\* line 140: watcher.removeListener('change', handleChange)
Detach(listeners) == removeListener(listeners, handleChange)

\* lines 136-141: what the constructor adds to the watcher's listeners
ListenersWithGraph(before, with, l) == IF with THEN Append(before, l) ELSE before

\* line 137: every call of handleChange notifies the watchChange hook once
RECURSIVE notified(_, _, _)
notified(calls, listeners, id) ==
  IF listeners = <<>> THEN calls
  ELSE notified(IF Head(listeners) = handleChange THEN Append(calls, id) ELSE calls,
                Tail(listeners), id)

\* the 'restart' listeners run in order: each `detach` takes handleChange out
RECURSIVE restarted(_, _)
restarted(changes, listeners) ==
  IF listeners = <<>> THEN changes
  ELSE restarted(IF Head(listeners) = detach THEN Detach(changes) ELSE changes,
                 Tail(listeners))

\* watcher.emit('change', id)
EmitChange(id) ==
  /\ Len(emitted) < MaxEvents
  /\ emitted' = Append(emitted, [type |-> "change", id |-> id])
  /\ watchChangeCalls' = notified(watchChangeCalls, changeListeners, id)
  /\ changeListeners' = withoutOnce(changeListeners)
  /\ UNCHANGED <<watcher, restartListeners>>
  /\ UNCHANGED notWatcherVars

\* watcher.emit('restart')
EmitRestart ==
  /\ Len(emitted) < MaxEvents
  /\ emitted' = Append(emitted, [type |-> "restart", id |-> None])
  /\ changeListeners' = restarted(changeListeners, restartListeners)
  /\ restartListeners' = withoutOnce(restartListeners)
  /\ UNCHANGED <<watcher, watchChangeCalls>>
  /\ UNCHANGED notWatcherVars

\* a Graph constructed with or without a watcher, which others may listen to
InitWatcher ==
  /\ NewGraph
  /\ cfg = [shape |-> 1, res |-> 1, ext |-> 1, cache |-> 1, load |-> 1]
  /\ NotAnalysed
  /\ NoPluginCache
  /\ NoExternalCall
  /\ NoWarmCache
  /\ watcher \in BOOLEAN
  /\ \E others \in {<<>>, <<foreign>>} :
       /\ changeListeners = ListenersWithGraph(others, watcher, handleChange)
       /\ restartListeners = ListenersWithGraph(others, watcher, detach)
  /\ watchChangeCalls = <<>>
  /\ emitted = <<>>

NextWatcher ==
  \/ \E id \in WatchedIds : EmitChange(id)
  \/ EmitRestart

SpecWatcher == InitWatcher /\ [][NextWatcher]_vars

(***************************************************************************)
(* Claims                                                                  *)
(***************************************************************************)
Pos(seq, x) == CHOOSE k \in 1..Len(seq) : seq[k] = x

\* C1: modules[] is in first-registration order: a module that fetchModule
\* registered in moduleById earlier never stands in modules[] after a module
\* registered later.
C1_ModulesInRegistrationOrder ==
  \A k, l \in 1..Len(modules) :
    k < l => Pos(regOrder, modules[k].id) < Pos(regOrder, modules[l].id)

\* C2: two builds of the same entries, options and hook outputs, which differ
\* only in the order the outstanding hook calls complete, end the same way:
\* the same modules[] order and warnings on success, the same error on failure.
C2_SameOutcomeInBothBuilds ==
  (round = 2 /\ phase \in {"loaded", "rejected"}) => CurrentOutcome = firstOutcome

\* C3: id uniqueness: for every id at most one Module is constructed and the
\* load hook is called at most once, however many importers ask for the id;
\* once a Module is registered for an id, moduleById keeps answering with it,
\* so every later fetchModule(id) returns it without loading.
C3_IdUniqueness ==
  \A id \in Ids :
    /\ constructed[id] <= 1
    /\ loadCalls[id] <= 1
    /\ loadCalls[id] = constructed[id]
    /\ constructed[id] = 1 => moduleById[id] = ModuleObj(id, 1)
    /\ Cardinality({ k \in 1..Len(regOrder) : regOrder[k] = id }) = constructed[id]

\* C3 witness: fetchModule was called three times for one id, at least once
\* while the module was still in flight, and the id was constructed and
\* loaded once.
C3_Witness ==
  \E id \in Ids :
    /\ fetchCalls[id] >= 3
    /\ id \in inFlightReturns
    /\ constructed[id] = 1
    /\ loadCalls[id] = 1

\* C4: once moduleById maps an id to an object it maps the id to that object
\* for good: no step replaces or removes an entry.
C4_ModuleByIdStable ==
  [][\A id \in Ids : moduleById[id] # NoObj => moduleById'[id] = moduleById[id]]_vars

\* C4 witness: every writer of moduleById has met an existing entry: a module
\* was registered again after its source arrived (line 569), and an existing
\* ExternalModule was asked for by a dynamic import and by a second static
\* import.
C4_Witness ==
  /\ \E id \in Ids : HasSource(id)
  /\ \E obj \in exportsNamespace :
       /\ IsExternalModule(obj)
       /\ moduleById[obj.id] = obj
       /\ Cardinality({ m \in Ids : \E sp \in Specs : resolvedIds[m][sp] = obj.id }) >= 2

\* C5: join completeness: when loadEntryModules has resolved, every Module
\* registered in moduleById stands in modules[] exactly once, every specifier
\* of its sources has a resolvedIds entry and every dynamic import expression
\* has a dynamicImportResolutions entry.
C5_JoinComplete ==
  phase = "loaded" =>
    \A id \in Ids :
      moduleById[id].kind = "Module" =>
        LET m == moduleById[id].id IN
          /\ Cardinality({ k \in 1..Len(modules) : modules[k] = moduleById[id] }) = 1
          /\ m \in ModIds
          /\ \A i \in 1..Len(Content(cfg.shape)[m].sources) :
               resolvedIds[m][Content(cfg.shape)[m].sources[i]] # None
          /\ Len(dynamicImportResolutions[m]) = Len(Content(cfg.shape)[m].dyn)
          /\ \A j \in 1..Len(dynamicImportResolutions[m]) :
               dynamicImportResolutions[m][j].resolution # NoObj

\* C5 witness: phase 1 resolved although some fetchModule call was answered
\* with a module that was still in flight, and a dynamic import was followed.
C5_Witness ==
  /\ phase = "loaded"
  /\ inFlightReturns # {}
  /\ \E m \in Ids : Len(dynamicImportResolutions[m]) > 0

\* C6: re-export-all flattening is complete: when phase 1 has finished, for
\* every module m and every specifier of m.exportAllSources that resolves to
\* an internal module n, every name of n's exportsAll is a key of
\* m.exportsAll, also when n was in flight while m was merged.
C6_ExportAllComplete ==
  phase = "loaded" =>
    \A m \in ModIds :
      \A k \in 1..Len(ExportAllSources(m)) :
        LET n == moduleById[resolvedIds[m][ExportAllSources(m)[k]]] IN
          n.kind = "Module" => Keys(exportsAll[n.id]) \subseteq Keys(exportsAll[m])

\* the static imports the claim C7 is about: the promise of specifier i of
\* module m has run, no resolvedIds entry was pre-populated and the external
\* option holds neither the specifier nor the id derived from it
Count(seq, x) == Cardinality({ k \in 1..Len(seq) : seq[k] = x })

PlainImportRan(m, i) ==
  /\ i \in 1..Len(staticTask[m])
  /\ staticTask[m][i].st # "resolving"
  /\ LET source == Sources(m)[i]
         rid == resolveIdHook(cfg, source)
     IN /\ ~isExternal(cfg, source)
        /\ rid \in {NULL, FALSE_}
        /\ ~isExternal(cfg, IF isRelative(source) THEN resolve(m, source) ELSE source)

\* the import was bound to the ExternalModule with this id
BoundToExternal(m, i, id) ==
  /\ staticTask[m][i] = Done
  /\ resolvedIds[m][Sources(m)[i]] = id
  /\ moduleById[id].kind = "External"
  /\ moduleById[id].id = id
  /\ moduleById[id] \in Range(externalModules)

\* the import failed because the id is taken by an object that is no ExternalModule
RefusedAsExternal(m, i, id) ==
  /\ staticTask[m][i] = Failed("INVALID_EXTERNAL_ID")
  /\ moduleById[id].kind # "External"
  /\ phase # "loaded"

\* case (a) of C7 as the code has it: the promise of the import rejects with
\* UNRESOLVED_IMPORT, nothing is bound, and phase 1 cannot resolve
FatalUnresolved(m, i) ==
  /\ staticTask[m][i] = Failed("UNRESOLVED_IMPORT")
  /\ resolvedIds[m][Sources(m)[i]] = None
  /\ Count(warnings, UnresolvedImportWarning(m, Sources(m)[i])) = 0
  /\ phase # "loaded"

\* C7 (as claimed): for a static import with no pre-populated resolvedIds entry
\* and a false external predicate: (a) a nullish resolveId result for a relative
\* specifier fails the build with UNRESOLVED_IMPORT and binds nothing; (b) a
\* nullish result for a bare specifier gives exactly one UNRESOLVED_IMPORT
\* warning and binds the import to the ExternalModule with the specifier as id;
\* (c) the result `false` binds the import to an ExternalModule with neither a
\* warning nor an error.
C7_ThreeValuedAsClaimed ==
  \A m \in ModIds, i \in 1..3 :
    PlainImportRan(m, i) =>
      LET source == Sources(m)[i]
          rid == resolveIdHook(cfg, source)
          warned == Count(warnings, UnresolvedImportWarning(m, source))
      IN CASE rid = NULL /\ isRelative(source) ->
                /\ FatalUnresolved(m, i)
                /\ phase = "rejected" => buildError = "UNRESOLVED_IMPORT"
           [] rid = NULL ->
                warned = 1 /\ BoundToExternal(m, i, source)
           [] OTHER ->
                /\ warned = 0
                /\ BoundToExternal(m, i, IF isRelative(source) THEN resolve(m, source)
                                                               ELSE source)

\* C7 (amended): as claimed, except that in (b) and (c) the import fails with
\* INVALID_EXTERNAL_ID when moduleById already holds a non-external object
\* under the external id, and that in (a) the build may reject with the error
\* of another import that failed first.
C7_ThreeValuedResolution ==
  \A m \in ModIds, i \in 1..3 :
    PlainImportRan(m, i) =>
      LET source == Sources(m)[i]
          rid == resolveIdHook(cfg, source)
          warned == Count(warnings, UnresolvedImportWarning(m, source))
          externalId == IF isRelative(source) THEN resolve(m, source) ELSE source
      IN CASE rid = NULL /\ isRelative(source) ->
                FatalUnresolved(m, i)
           [] rid = NULL ->
                /\ warned = 1
                /\ BoundToExternal(m, i, source) \/ RefusedAsExternal(m, i, source)
           [] OTHER ->
                /\ warned = 0
                /\ BoundToExternal(m, i, externalId) \/ RefusedAsExternal(m, i, externalId)

\* C7 witness: in one build a relative specifier was left unresolved and
\* failed, a bare one was left unresolved, warned about and bound, a specifier
\* resolved to `false` was bound to an ExternalModule and another one was
\* refused because its id is a module's.
C7_Witness ==
  /\ \E m \in ModIds, i \in 1..3 :
       /\ PlainImportRan(m, i)
       /\ resolveIdHook(cfg, Sources(m)[i]) = NULL
       /\ FatalUnresolved(m, i)
  /\ \E m \in ModIds, i \in 1..3 :
       /\ PlainImportRan(m, i)
       /\ resolveIdHook(cfg, Sources(m)[i]) = NULL
       /\ BoundToExternal(m, i, "ext")
  /\ \E m \in ModIds, i \in 1..3 :
       /\ PlainImportRan(m, i)
       /\ resolveIdHook(cfg, Sources(m)[i]) = FALSE_
       /\ BoundToExternal(m, i, "/c")
  /\ \E m \in ModIds, i \in 1..3 :
       /\ PlainImportRan(m, i)
       /\ resolveIdHook(cfg, Sources(m)[i]) = FALSE_
       /\ RefusedAsExternal(m, i, "/b")

\* C8: cache correctness: for every module whose load result was accepted,
\* transform is skipped, and the cached transformAssets are emitted again, if
\* and only if a cached module with the same originalCode and without a
\* customTransformCache exists for the id; otherwise transform runs once.
C8_CacheCorrectness ==
  \A id \in Ids :
    /\ transformCalls[id] <= 1
    /\ (pc[id] \in {"cached", "transforming"} \/ HasSource(id)) =>
         LET cached == cachedModules(cfg, id)
             reused == /\ cached.present
                       /\ cached.originalCode = Code(id)
                       /\ ~cached.customTransformCache
         IN /\ transformCalls[id] = 0 <=> reused
            /\ ~reused => transformCalls[id] = 1
            /\ \A k \in 1..Len(cached.transformAssets) :
                 Count(emittedAssets, cached.transformAssets[k]) = IF reused THEN 1 ELSE 0

\* C8 witness: one build reused a cached module with assets, transformed a
\* module whose cached code was stale and one with a customTransformCache.
C8_Witness ==
  /\ cfg.cache = 2
  /\ \A id \in ModIds : HasSource(id)
  /\ transformCalls["/a"] = 0
  /\ transformCalls["/b"] = 1
  /\ transformCalls["/c"] = 1
  /\ emittedAssets = <<"asset1", "asset2">>

\* the declarations in internal modules that a statement references
InternalRefs(st) == Program.refs[st] \cap AllStatements

\* includeMarked has returned
IncludeMarkedReturned == at \in {"chunks", "link", "facades", "returned"}

\* C9: when includeMarked has returned with tree-shaking enabled, the included
\* nodes are closed under binding references: every declaration in an internal
\* module that an included node references is included too.
C9_TreeShakeClosure ==
  (linked.treeshake /\ IncludeMarkedReturned) =>
    \A n \in included : InternalRefs(n) \subseteq included

\* includeMarked has just returned after more than three passes; an included
\* node references a declaration of another module and an external binding,
\* and some statements were left out
C9_Witness ==
  /\ linked.treeshake
  /\ at = "chunks"
  /\ treeshakingPass > 4
  /\ included # AllStatements
  /\ \E n \in included :
       /\ ExternalBinding \in Program.refs[n]
       /\ \E d \in InternalRefs(n) : \E m \in Range(orderedModules) :
            /\ d \in Range(Program.statements[m])
            /\ n \notin Range(Program.statements[m])

\* where module m stands in the module lists of the chunks
Places(m) ==
  UNION { { <<k, i>> : i \in { j \in 1..Len(chunks[k].modules) : chunks[k].modules[j] = m } }
          : k \in 1..Len(chunks) }

SameChunk(m1, m2) ==
  \E k \in 1..Len(chunks) : {m1, m2} \subseteq Range(chunks[k].modules)

\* build has returned its chunk list, preserveModules being off
ChunksReturned == at = "returned" /\ ~linked.preserveModules

\* every included module stands in exactly one module list, exactly once
IncludedModulesPlacedOnce ==
  \A m \in Range(orderedModules) :
    isIncluded(m, included) => Cardinality(Places(m)) = 1

\* C10 as stated: in the returned chunk list every included module is in
\* exactly one chunk, and any two modules of orderedModules are in the same
\* chunk if and only if their entryPointsHash values are equal.
C10_PartitionAsClaimed ==
  ChunksReturned =>
    /\ IncludedModulesPlacedOnce
    /\ \A m1, m2 \in Range(orderedModules) :
         m1 # m2 => (SameChunk(m1, m2) <=> entryPointsHash(m1) = entryPointsHash(m2))

\* C10, amended: in the returned chunk list every included module is in
\* exactly one chunk and no module is in two; two modules in the same chunk
\* have equal entryPointsHash values; two modules with equal values are in the
\* same chunk or both in none; and a module is in no chunk only if no module
\* with its entryPointsHash value is included, an entry module or a module of
\* a manual chunk.
C10_ChunkPartition ==
  ChunksReturned =>
    /\ IncludedModulesPlacedOnce
    /\ \A m \in Range(orderedModules) : Cardinality(Places(m)) <= 1
    /\ \A m1, m2 \in Range(orderedModules) :
         /\ SameChunk(m1, m2) => entryPointsHash(m1) = entryPointsHash(m2)
         /\ entryPointsHash(m1) = entryPointsHash(m2) =>
              (SameChunk(m1, m2) \/ (Places(m1) = {} /\ Places(m2) = {}))
         /\ (Places(m1) = {} /\ entryPointsHash(m1) = entryPointsHash(m2)) =>
              /\ ~isIncluded(m2, included)
              /\ ~isEntryPoint(m2)
              /\ m2 \notin Program.manual

\* build has returned: a chunk holds two modules, the chunk of two modules
\* nothing is kept of was dropped, and a facade was added for an entry module
C10_Witness ==
  /\ ChunksReturned
  /\ linked.treeshake
  /\ \E k \in 1..Len(chunks) : chunks[k].facade
  /\ \E k \in 1..Len(chunks) : Len(chunks[k].modules) > 1 /\ ~chunks[k].isEmpty
  /\ \E m1, m2 \in Range(orderedModules) :
       /\ m1 # m2
       /\ entryPointsHash(m1) = entryPointsHash(m2)
       /\ Places(m1) = {} /\ Places(m2) = {}

\* the build future has rejected, in discovery or in the callback after it
BuildFutureRejected == phase = "rejected" \/ at = "rejected"

\* the codes of the warnings emitted so far
WarningCodes == { warnings[k].code : k \in 1..Len(warnings) }

\* two of the configured entries were resolved to the same module
SameModuleTwice ==
  /\ phase = "loaded"
  /\ \E i, j \in 1..Len(loadedEntryModules) :
       i < j /\ loadedEntryModules[i] = loadedEntryModules[j]

\* inlineDynamicImports was asked for with more than one entry
InlineWithManyEntries ==
  /\ at # "discovery"
  /\ linked.inlineDynamicImports
  /\ Len(Program.entries) > 1

\* C11: finished is false from construction and becomes true only in the
\* step in which build resolves with its chunk list; once the build future
\* has rejected (also for duplicate entries and for inlineDynamicImports with
\* several entries) it stays rejected, finished stays false and no chunk list
\* is returned. The witness is a build that emitted warnings and finished.
C11_FinishedOnlyOnSuccess ==
  /\ [](finished <=> at = "returned")
  /\ [](BuildFutureRejected => ~finished)
  /\ []((SameModuleTwice \/ InlineWithManyEntries) => ~finished)
  /\ [][(BuildFutureRejected => BuildFutureRejected')
        /\ (finished => finished')
        /\ (finished' /\ ~finished => at = "facades" /\ at' = "returned")]_vars

\* build has resolved and set finished although discovery and analysis
\* emitted warnings of two kinds
C11_Witness ==
  /\ finished
  /\ at = "returned"
  /\ "CIRCULAR_DEPENDENCY" \in WarningCodes
  /\ WarningCodes \cap {"NAMESPACE_CONFLICT", "UNRESOLVED_IMPORT"} # {}

\* a Graph is constructed in this step
ConstructStep == buildNumber' = buildNumber + 1

\* getCache runs in this step
GetCacheStep == cacheAt' = "returned" /\ buildNumber' = buildNumber

\* C12: construction increments the counter of every pre-existing entry by
\* exactly one and adds or removes none; after getCache no entry has a
\* counter >= cacheExpiry and no plugin cache is empty; getCache leaves
\* the entries that survive as they were and removes expired ones only; hence,
\* cacheExpiry being E, an entry whose counter was 0 in build b and was not
\* reset since is present after the builds b+1..b+E-1 and absent after
\* build b+E.
C12_PluginCacheAgeing ==
  /\ [][ConstructStep =>
          /\ DOMAIN pluginCache' = DOMAIN pluginCache
          /\ \A name \in DOMAIN pluginCache :
               /\ DOMAIN pluginCache'[name] = DOMAIN pluginCache[name]
               /\ \A key \in DOMAIN pluginCache[name] :
                    pluginCache'[name][key] =
                      Entry(pluginCache[name][key][1] + 1, pluginCache[name][key][2])]_vars
  /\ [][GetCacheStep =>
          \A name \in Plugins, key \in CacheKeys :
            /\ HasEntry(pluginCache', name, key) =>
                 /\ HasEntry(pluginCache, name, key)
                 /\ pluginCache'[name][key] = pluginCache[name][key]
            /\ (HasEntry(pluginCache, name, key) /\ ~HasEntry(pluginCache', name, key)) =>
                 /\ cacheExpiry.defined
                 /\ pluginCache[name][key][1] >= cacheExpiry.value]_vars
  /\ [](cacheAt = "returned" =>
          \A name \in DOMAIN pluginCache :
            /\ DOMAIN pluginCache[name] # {}
            /\ \A key \in DOMAIN pluginCache[name] :
                 ~(cacheExpiry.defined /\ pluginCache[name][key][1] >= cacheExpiry.value))
  /\ []((cacheAt = "returned" /\ cacheExpiry.defined) =>
          \A name \in Plugins, key \in CacheKeys :
            lastSet[<<name, key>>].set =>
              /\ HasEntry(pluginCache, name, key) <=>
                   buildNumber - lastSet[<<name, key>>].at < cacheExpiry.value
              /\ HasEntry(pluginCache, name, key) =>
                   pluginCache[name][key][1] = buildNumber - lastSet[<<name, key>>].at)

\* with cacheExpiry 3, getCache has run in the third build after the one
\* that set an entry: the entry is gone, its plugin cache with it, while
\* an entry that was set later is still there
C12_Witness ==
  /\ cacheAt = "returned"
  /\ cacheExpiry = [defined |-> TRUE, value |-> 3]
  /\ buildNumber = 4
  /\ lastSet[<<"p", "k1">>] = SetAt(1)
  /\ "p" \notin DOMAIN pluginCache
  /\ HasEntry(pluginCache, "q", "k2")
  /\ lastSet[<<"q", "k2">>] = SetAt(3)
  /\ pluginCache["q"]["k2"][1] = 1

\* C13: whatever the form of the external option, isExternal returns false
\* for every id that begins with \0.
C13_NulIdsNeverExternal ==
  (externalCall # None /\ startsWithNul(externalCall)) => ~externalResult

\* the dynamic import j of module m is a string literal whose replacement the
\* external option holds, and its promise has settled
DynamicExternalRan(m, j) ==
  /\ j \in 1..Len(dynTask[m])
  /\ dynTask[m][j].st = "done"
  /\ DynamicImportExpressions(m)[j].str
  /\ resolveDynamicImportHook(cfg, DynamicImportExpressions(m)[j]) # NULL
  /\ isExternal(cfg, resolveDynamicImportHook(cfg, DynamicImportExpressions(m)[j]))

\* a static import of the id has run
StaticImportOf(n, i, id) ==
  /\ i \in 1..Len(staticTask[n])
  /\ staticTask[n][i].st # "resolving"
  /\ isExternal(cfg, Sources(n)[i])
  /\ Sources(n)[i] = id

\* C14: a string-literal dynamic import whose replacement is external is
\* recorded as an ExternalModule with the replacement as id and
\* exportsNamespace set; the ExternalModule is created on the first use of the
\* id and is the one moduleById holds from then on, and a static external import
\* of the same id is bound to that ExternalModule without an error.
C14_DynamicExternalRecorded ==
  \A m \in ModIds, j \in 1..3 :
    DynamicExternalRan(m, j) =>
      LET replacement == resolveDynamicImportHook(cfg, DynamicImportExpressions(m)[j])
          resolution == dynamicImportResolutions[m][j].resolution
      IN /\ IsExternalModule(resolution)
         /\ resolution.id = replacement
         /\ resolution \in exportsNamespace
         /\ resolution \in Range(externalModules)
         /\ extConstructed[replacement] = 1
         /\ moduleById[replacement] = resolution
         /\ \A n \in ModIds, i \in 1..3 :
              StaticImportOf(n, i, replacement) =>
                /\ staticTask[n][i] = Done
                /\ resolvedIds[n][replacement] = replacement

\* the load hook of the module has completed and its result was looked at
LoadValidated(id) == loadCalls[id] > 0 /\ pc[id] # "loading"

\* the second `then` of fetchModule (line 540) ran: the load result was let through
LoadAccepted(id) == pc[id] \in {"transforming", "cached"} \/ selfObj(id) \in Range(modules)

\* C15: fetchModule fails with BAD_LOADER exactly when the load result is none
\* of a string, an object with a string code field, or nullish: a nullish
\* result is let through, and a load hook that fails gives the 'Could not
\* load' error instead.
C15_LoadValidation ==
  \A id \in ModIds :
    LoadValidated(id) =>
      CASE loadHook(cfg, id) = THROW ->
             pc[id] = "failed" /\ err[id] = "LOAD_ERROR"
        [] loadHook(cfg, id) \in {"string", "object", "null"} ->
             LoadAccepted(id)
        [] OTHER ->
             pc[id] = "failed" /\ err[id] = "BAD_LOADER" /\ ~LoadAccepted(id)

\* includeMarked is running its do-while loop
Treeshaking == at = "include" /\ linked.treeshake

\* no module's include() would report a change
NothingLeftToInclude ==
  \A m \in Range(orderedModules) : ~moduleInclude(m, included, referenced).changed

\* C16: with tree-shaking enabled includeMarked terminates; every pass calls
\* include() on every module of orderedModules in order, whether or not an
\* earlier module of the pass reported a change; the loop is left exactly after
\* the first complete pass in which no include() returned true, so that the
\* number of passes is at most the number of included statements plus one.
C16_IncludeMarkedTerminates ==
  /\ Treeshaking ~> (at = "chunks")
  /\ [][Treeshaking =>
          \/ /\ moduleIndex \in 1..Len(orderedModules)
             /\ moduleIndex' = moduleIndex + 1
             /\ treeshakingPass' = treeshakingPass
             /\ Treeshaking'
             /\ included \subseteq included'
             /\ needsTreeshakingPass' =
                  (needsTreeshakingPass
                     \/ moduleInclude(orderedModules[moduleIndex], included, referenced).changed)
          \/ /\ moduleIndex = Len(orderedModules) + 1
             /\ treeshakingPass' = treeshakingPass + 1
             /\ included' = included
             /\ IF needsTreeshakingPass
                THEN Treeshaking' /\ moduleIndex' = 1 /\ ~needsTreeshakingPass'
                ELSE at' = "chunks" /\ NothingLeftToInclude]_vars
  /\ [](Treeshaking => treeshakingPass - 1 <= Cardinality(included))
  /\ []((linked.treeshake /\ IncludeMarkedReturned) =>
          /\ treeshakingPass - 1 <= Cardinality(included) + 1
          /\ treeshakingPass - 1 <= Cardinality(AllStatements) + 1)

\* includeMarked has returned after as many passes as it included statements,
\* plus the last one; in the graph a module late in the order made a module
\* early in the order include more, and some statement was left out
C16_Witness ==
  /\ linked.treeshake
  /\ at = "chunks"
  /\ treeshakingPass - 1 >= 3
  /\ treeshakingPass - 1 = Cardinality(included) + 1
  /\ included # AllStatements

\* the static import of specifier i of module m was classified external and
\* bound to an ExternalModule
ExternalImportBound(m, i) ==
  /\ i \in 1..Len(staticTask[m])
  /\ staticTask[m][i] = Done
  /\ resolvedIds[m][Sources(m)[i]] # None
  /\ IsExternalModule(moduleById[resolvedIds[m][Sources(m)[i]]])

\* the names of the import declarations of module m whose source is the specifier
DeclaredNames(m, source) ==
  { ModuleImports(m)[k].name :
      k \in { j \in 1..Len(ModuleImports(m)) : ModuleImports(m)[j].source = source } }

\* the names traceExport was called with on the object for imports of module m
TracedNames(obj, m) ==
  { t.name : t \in { c \in traced : c.module = obj /\ c.importer = m } }

\* C17: for every static import specifier s of a module m that is classified
\* external, traceExport(name) has been called on s's ExternalModule for every
\* import declaration of m.imports whose source is s, wherever these stand in
\* m.imports, and for no declaration of another source.
C17_ExternalUsageRecorded ==
  \A m \in ModIds, i \in 1..3 :
    ExternalImportBound(m, i) =>
      TracedNames(moduleById[resolvedIds[m][Sources(m)[i]]], m)
        = DeclaredNames(m, Sources(m)[i])

\* a promise of the dynamic fan-out of module m has rejected
DynamicFailed(m) == \E j \in 1..Len(dynTask[m]) : TaskFailed(dynTask[m][j])

\* a promise of the static fan-out of module m has rejected
StaticFailed(m) == \E i \in 1..Len(staticTask[m]) : TaskFailed(staticTask[m][i])

\* the errors the dynamic fan-out of module m rejected with
DynamicErrors(m) ==
  { TaskErr(dynTask[m][j]) : j \in { k \in 1..Len(dynTask[m]) : TaskFailed(dynTask[m][k]) } }

\* C18: when a promise of the dynamic fan-out of a module has rejected (the
\* resolveDynamicImport hook, or the fetch of the module it names), the
\* module's fetchAllDependencies future never resolves; it rejects, with an
\* error of the dynamic fan-out when every static dependency succeeded and
\* with one of the errors otherwise, and the build future rejects and never
\* resolves.
C18_DynamicErrorsReachBuild ==
  /\ [](\A m \in ModIds : DynamicFailed(m) =>
          /\ pc[m] # "done"
          /\ phase # "loaded"
          /\ (pc[m] = "failed" /\ StaticDone(m)) => err[m] \in DynamicErrors(m)
          /\ pc[m] = "failed" => err[m] \in Rejections(m))
  /\ \A m \in ModIds :
       DynamicFailed(m) ~> (pc[m] = "failed" /\ phase = "rejected" /\ buildError # None)

\* the resolveDynamicImport hook of a module rejected while its static
\* dependencies all succeeded, and the build rejected with that error; in
\* another module the fetch of a dynamically imported module failed
C18_Witness ==
  /\ phase = "rejected"
  /\ \E m \in ModIds :
       /\ DynamicFailed(m)
       /\ StaticDone(m)
       /\ Len(staticTask[m]) > 0
       /\ pc[m] = "failed"
       /\ err[m] = "RESOLVE_DYNAMIC_IMPORT_ERROR"
       /\ buildError = err[m]

\* the module's own exports that exportsAll may hold
OwnNames(m) == Range(Exports(m)) \ {"default"}

\* what the k-th export-all specifier of module m resolved to
ExportAllModule(m, k) == moduleById[resolvedIds[m][ExportAllSources(m)[k]]]

\* the export-all specifiers of module m that stand for an internal module
\* whose exportsAll has the name
Providers(m, name) ==
  { k \in 1..Len(ExportAllSources(m)) :
      /\ ~IsExternalModule(ExportAllModule(m, k))
      /\ name \in Keys(exportsAll[ExportAllModule(m, k).id]) }

\* the origin the earliest providing specifier gives for the name
FirstSeen(m, name) ==
  LET k == CHOOSE p \in Providers(m, name) : \A q \in Providers(m, name) : p <= q
  IN Get(exportsAll[ExportAllModule(m, k).id], name)

\* the NAMESPACE_CONFLICT warnings given for a name re-exported by module m
Conflicts(m, name) ==
  Cardinality({ i \in 1..Len(warnings) :
                  /\ warnings[i].code = "NAMESPACE_CONFLICT"
                  /\ warnings[i].reexporter = m
                  /\ warnings[i].name = name })

\* C19: first-seen wins in exportsAll. A module's own non-default exports map
\* to the module itself; a name that export-all sources contribute maps to the
\* origin given by the earliest specifier of exportAllSources that provides it;
\* every later internal export-all source that provides a name already present
\* gives exactly one NAMESPACE_CONFLICT warning for it; 'default' is never a
\* key; and no step overwrites or removes an entry of exportsAll.
C19_FirstSeenWins ==
  /\ [](\A m \in ModIds : "default" \notin Keys(exportsAll[m]))
  /\ [][\A m \in ModIds : \A name \in Keys(exportsAll[m]) :
          /\ name \in Keys(exportsAll'[m])
          /\ Get(exportsAll'[m], name) = Get(exportsAll[m], name)]_vars
  /\ [](phase = "loaded" =>
          \A m \in ModIds : pc[m] = "done" =>
            /\ \A name \in OwnNames(m) :
                 /\ name \in Keys(exportsAll[m])
                 /\ Get(exportsAll[m], name) = m
                 /\ Conflicts(m, name) = Cardinality(Providers(m, name))
            /\ \A name \in Names \ OwnNames(m) :
                 IF Providers(m, name) = {}
                 THEN name \notin Keys(exportsAll[m]) /\ Conflicts(m, name) = 0
                 ELSE /\ name \in Keys(exportsAll[m])
                      /\ Get(exportsAll[m], name) = FirstSeen(m, name)
                      /\ Conflicts(m, name) = Cardinality(Providers(m, name)) - 1)

\* lines 393-418 have run and build went on
Promoted == at \in {"mark", "include", "chunks", "link", "facades", "returned"}

\* the first place of module m in a list
FirstIndex(list, m) == CHOOSE i \in 1..Len(list) : list[i] = m /\ \A j \in 1..(i - 1) : list[j] # m

\* C20: without inlineDynamicImports every module of dynamicImports that is no
\* entry yet is appended to the entry modules exactly once, after the
\* configured entries and in the order of dynamicImports; it gets
\* dynamicImportAliases[i] as chunkAlias only if it has none, and the
\* configured entries keep their configured alias. With inlineDynamicImports
\* the entry modules are unchanged. In both modes markPublicExports has been
\* invoked on every configured entry and on every module of dynamicImports
\* when the first include pass starts.
C20_DynamicImportsPromoted ==
  LET configured == Program.entries
      dyn == Program.dynamicImports
      n == Len(configured)
  IN Promoted =>
       /\ IF linked.inlineDynamicImports
          THEN entryModules = configured
          ELSE /\ SubSeq(entryModules, 1, n) = configured
               /\ Range(entryModules) = Range(configured) \cup Range(dyn)
               /\ \A i, j \in 1..Len(entryModules) :
                    i < j => entryModules[i] # entryModules[j]
               /\ \A i, j \in (n + 1)..Len(entryModules) :
                    i < j => FirstIndex(dyn, entryModules[i]) < FirstIndex(dyn, entryModules[j])
               /\ \A i \in (n + 1)..Len(entryModules) :
                    LET m == entryModules[i] IN
                      chunkAlias[m] =
                        IF analysedChunkAlias(linked.program)[m] # None
                        THEN analysedChunkAlias(linked.program)[m]
                        ELSE dynamicImportAliases(FirstIndex(dyn, m))
       /\ \A i \in 1..n : chunkAlias[configured[i]] = entryModuleAliases(i)
       /\ \A m \in GraphIds \ Range(entryModules) :
            chunkAlias[m] = analysedChunkAlias(linked.program)[m]
       /\ at # "mark" =>
            \A m \in Range(configured) \cup Range(dyn) : markPublicCalls[m] >= 1

\* the first include pass is about to start; of the dynamic imports one was an
\* entry already, one is listed twice and was pushed once with the alias of
\* its manual chunk kept, and one got the alias of its dynamic import
C20_Witness ==
  /\ at = "include"
  /\ included = {}
  /\ ~linked.inlineDynamicImports
  /\ \E m \in Range(Program.dynamicImports) : m \in Range(Program.entries)
  /\ \E i, j \in 1..Len(Program.dynamicImports) :
       /\ i < j
       /\ Program.dynamicImports[i] = Program.dynamicImports[j]
       /\ chunkAlias[Program.dynamicImports[i]] = "manual"
  /\ \E i \in 1..Len(entryModules) :
       /\ i > Len(Program.entries)
       /\ chunkAlias[entryModules[i]] = dynamicImportAliases(3)

\* the ids of the 'change' events that come before the first 'restart'
RECURSIVE ChangesBeforeRestart(_)
ChangesBeforeRestart(events) ==
  IF events = <<>> \/ Head(events).type = "restart" THEN <<>>
  ELSE <<Head(events).id>> \o ChangesBeforeRestart(Tail(events))

Restarted == \E k \in 1..Len(emitted) : emitted[k].type = "restart"

\* C21: for a Graph constructed with a watcher every 'change' event emitted
\* before the first 'restart' gives exactly one watchChange notification with
\* its id, within the emit; after the first 'restart' no 'change' event gives
\* one, and further 'restart' events change nothing.
C21_WatcherLifecycle ==
  /\ [](watcher => watchChangeCalls = ChangesBeforeRestart(emitted))
  /\ [][(watcher /\ Restarted) =>
          /\ watchChangeCalls' = watchChangeCalls
          /\ changeListeners' = changeListeners
          /\ restartListeners' = restartListeners]_vars

\* two changes were notified, then the watcher restarted twice and emitted a
\* change nobody was told about
C21_Witness ==
  /\ watcher
  /\ Len(emitted) = MaxEvents
  /\ Len(watchChangeCalls) = 1
  /\ emitted[1].type = "change"
  /\ emitted[2].type = "restart"
  /\ emitted[3].type = "restart"
  /\ emitted[4].type = "change"
  /\ changeListeners = <<foreign>>

\* the ids of the elements of externalModules
ExternalModuleIds == { externalModules[k].id : k \in 1..Len(externalModules) }

\* C22: no id is both the id of a Module that fetchModule constructed and the
\* id of an element of externalModules, and externalModules never holds two
\* ExternalModules with the same id: where one id is used in both roles no
\* second object is created for it.
C22_InternalExternalExclusive ==
  /\ [](\A id \in Ids :
          /\ ~(constructed[id] > 0 /\ id \in ExternalModuleIds)
          /\ constructed[id] + extConstructed[id] <= 1
          /\ extConstructed[id] > 0 <=> id \in ExternalModuleIds)
  /\ [](\A i, j \in 1..Len(externalModules) :
          i < j => externalModules[i].id # externalModules[j].id)
  /\ [][\A id \in Ids :
          /\ id \in ExternalModuleIds => constructed'[id] = constructed[id]
          /\ constructed[id] > 0 => extConstructed'[id] = extConstructed[id]]_vars

\* one id was asked for in both roles: a static import was refused as external
\* because a Module constructed by fetchModule holds its id, while another id
\* is an ExternalModule's
C22_Witness ==
  /\ externalModules # <<>>
  /\ \E m \in ModIds, i \in 1..3 :
       /\ i \in 1..Len(staticTask[m])
       /\ staticTask[m][i] = Failed("INVALID_EXTERNAL_ID")
       /\ \E id \in ModIds :
            /\ isExternal(cfg, id)
            /\ constructed[id] = 1
            /\ moduleById[id] = ModuleObj(id, 1)
            /\ id \notin ExternalModuleIds

\* a static import of a module reused from the cache whose chain has run
WarmImportRan(m, i) ==
  /\ round = 2
  /\ cacheModules[m].present
  /\ pc[m] \in {"deps", "done", "failed"}
  /\ i \in 1..Len(staticTask[m])
  /\ staticTask[m][i].st # "resolving"
  /\ coldImports[m][Sources(m)[i]] # NotClassified

\* C23: a warm build that reuses a cached module with its round-tripped
\* resolvedIds, under the same external option and hook outputs as the cold
\* build that wrote the cache, classifies every static import of that module
\* as the cold build did: the same target id, an import the cold build made
\* external is bound to an ExternalModule and its id is never fetched as an
\* internal module, and an import the cold build fetched is fetched again
C23_WarmColdEquivalence ==
  \A m \in ModIds : \A i \in 1..Len(staticTask[m]) :
    WarmImportRan(m, i) =>
      LET cold == coldImports[m][Sources(m)[i]] IN
        /\ resolvedIds[m][Sources(m)[i]] = cold.id
        /\ cold.external =>
              /\ cold.id \in ExternalModuleIds
              /\ fetchCalls[cold.id] = 0
        /\ ~cold.external => fetchCalls[cold.id] > 0
====
